---- MODULE Spec2Model ----
(***************************************************************************)
(* A model of the lumimqtt bridge: the button gesture resolver             *)
(* (src/lumimqtt/button.py), the light transition engine                   *)
(* (src/lumimqtt/light.py) and the tasks of the orchestrator               *)
(* (src/lumimqtt/lumimqtt.py): message intake, periodic sensor publish     *)
(* and the connection manager.                                             *)
(*                                                                         *)
(* Tasks are asyncio coroutines: a task runs without interruption between  *)
(* two awaits, so every action below is the code between two suspension    *)
(* points.  asyncio.Queue is taken by its contract (FIFO, unbounded, a     *)
(* timed-out get takes nothing).  Time is counted in tenths of a second.   *)
(***************************************************************************)
EXTENDS Integers, Sequences, FiniteSets, TLC

VARIABLES
    \* ---- Button (button.py) ----
    is_pressed,     \* Button.is_pressed
    is_sent,        \* Button.is_sent
    clicks_done,    \* Button.clicks_done
    event_queue,    \* Button.event_queue: the keystates put and not yet got,
                    \* each tagged with its arrival number
    bpc,            \* where handle_queue is suspended
    action,         \* the gesture handed to the on_click call last made
    waited,         \* time spent in the current wait_for
    gap,            \* time since handle_events last put an event
    nput,           \* number of events handle_events has put
    nget,           \* number of events handle_queue has got
    scen,           \* observer: the event sequence since the button was idle
    keystate,       \* observer: the keystate handle_events put last
    \* ---- Light (light.py) ----
    pwm_max,        \* Light.pwm_max
    led,            \* what the r, g and b brightness files hold
    lstate,         \* Light.state
    lpc,            \* where Light.set is: "idle" (no call), "sleep" (in
                    \* aio.sleep), "done" (returned), "raised", "cancelled"
    value,          \* the request of the current call, as received
    loc,            \* the locals of that call
    frame,          \* the frame that call wrote last
    pframe,         \* the frame it wrote before that one
    nframes,        \* the number of frames it has written
    \* ---- MQTT client (aio_mqtt.Client as lumimqtt.py uses it) ----
    connected,      \* Client.is_connected()
    ndrops,         \* number of times the connection was closed
    \* ---- Message intake (lumimqtt.py, _handle_messages) ----
    inbox,          \* the messages delivered and not yet yielded by
                    \* delivered_messages, each tagged with its arrival number
    nrecv,          \* number of messages delivered
    mpc,            \* where _handle_messages is: "next" (awaiting a message),
                    \* "call" (about to call light.set), "set" (in light.set),
                    \* "publish" (awaiting publish), "reconnect" (awaiting
                    \* wait_for_connect), "spin" (looping at the continue)
    message,        \* the message of the current iteration of async for
    light,            \* the light whose state lstate and led are
    parked,         \* state and channels of the other lights
    echo,           \* the state publish last made
    logged,         \* the error last logged by _handle_messages
    \* ---- Periodic publish (lumimqtt.py, _periodic_publish) ----
    now,            \* datetime.now(), in seconds
    debounce,       \* LumiMqtt._debounce_sensors
    ppc,            \* where _periodic_publish is: "top" (at while True),
                    \* "idle" (in aio.sleep(1), not connected), "for" (in
                    \* the for loop, at sensor idx), "publish" (awaiting
                    \* publish), "reconnect" (awaiting wait_for_connect),
                    \* "sleep" (in aio.sleep(period)), "raised"
    idx,            \* the place in self.sensors of the sensor of the for loop
    got,            \* what sensor.get_value() returned last
    sent,           \* observer: per sensor the record of the publish last
                    \* acknowledged
    nticks,         \* number of sleeps of _periodic_publish that returned
    \* ---- Connection manager (lumimqtt.py, _connect_forever) ----
    cpc,            \* where _connect_forever is: "connect", "online",
                    \* "subscribe", "config", "session" (awaiting
                    \* disconnect_reason), "backoff" (in aio.sleep), or over:
                    \* "returned", "raised", "cancelled"
    timer,          \* seconds left of the aio.sleep in progress
    nattempts,      \* number of times the loop went back to connect
    cause,          \* the exception raised in the current pass of the
                    \* loop, or how the session ended
    since,          \* observer: the time of the failure slept after
    wire,           \* what the task has sent on the session it is in
    will,           \* the last will the last call of connect registered
    \* ---- The tasks (lumimqtt.py, start, close, _handle_buttons) ----
    opc,            \* where start and then close are: "wait" (in aio.wait),
                    \* "cancel" (in the loop over unfinished), "returned" or
                    \* "raised" (start is over), "close", "closed"
    hpc,            \* where _handle_buttons is: "wait", or over
    gpc,            \* the task of Button.handle: "running", or over
    epc,            \* the task of Button.handle_events: "running", or over
    pending,        \* the tasks start or close has yet to cancel
    finished,       \* the tasks aio.wait gave start as finished
    click           \* _handle_click: the publishes acknowledged in the call
                    \* made after the call-th get of handle_queue

bvars == <<is_pressed, is_sent, clicks_done, event_queue, bpc, action,
           waited, gap, nput, nget, scen, keystate>>

lvars == <<pwm_max, led, lstate, lpc, value, loc, frame, pframe, nframes>>

cvars == <<connected, ndrops>>

mvars == <<inbox, nrecv, mpc, message, light, parked, echo, logged>>

svars == <<now, debounce, ppc, idx, got, sent, nticks>>

kvars == <<cpc, timer, nattempts, cause, since, wire, will>>

tvars == <<opc, hpc, gpc, epc, pending, finished, click>>

\* what neither the button nor the light owns
ovars == <<cvars, mvars, svars, kvars, tvars>>

vars == <<bvars, lvars, ovars>>

\* --------------------------------------------------------------- bounds
MaxEvents == 10
MaxQueue == 3
MaxMessages == 2
MaxInbox == 2
MaxDrops == 1
MaxTicks == 3
MaxAttempts == 3
MaxPresses == 2

\* ------------------------------------------------------------ constants
\* Button.THRESHOLD = 0.3 s, in tenths of a second
THRESHOLD == 3

\* evdev KeyEvent.keystate values, and what else the device can deliver
KeyStates == {"key_up", "key_down"}
DeviceEvents == {"key_up", "key_down", "key_hold", "other"}

None == "None"
Unknown == "Unknown button state"

\* class ButtonAction
ButtonAction ==
    [SINGLE |-> "single", DOUBLE |-> "double", TRIPLE |-> "triple",
     QUADRUPLE |-> "quadruple", MANY |-> "many", HOLD |-> "hold",
     DOUBLE_HOLD |-> "double_hold", TRIPLE_HOLD |-> "triple_hold",
     QUADRUPLE_HOLD |-> "quadruple_hold", MANY_HOLD |-> "many_hold",
     RELEASE |-> "release"]

\* ActionTable with the click counts of the released rows shifted by one
ActionTable_Shifted(p, c) ==
    CASE ~p /\ c = 1 -> ButtonAction.SINGLE
      [] ~p /\ c = 2 -> ButtonAction.TRIPLE
      [] ~p /\ c = 3 -> ButtonAction.QUADRUPLE
      [] p /\ c = 0 -> ButtonAction.HOLD
      [] p /\ c = 1 -> ButtonAction.DOUBLE_HOLD
      [] p /\ c = 2 -> ButtonAction.TRIPLE_HOLD
      [] p /\ c = 3 -> ButtonAction.QUADRUPLE_HOLD
      [] OTHER -> None

\* the dict literal of handle_queue and its .get(): None when the key is absent
ActionTable(p, c) ==
    CASE ~p /\ c = 1 -> ButtonAction.SINGLE
      [] ~p /\ c = 2 -> ButtonAction.DOUBLE
      [] ~p /\ c = 3 -> ButtonAction.TRIPLE
      [] ~p /\ c = 4 -> ButtonAction.QUADRUPLE
      [] p /\ c = 0 -> ButtonAction.HOLD
      [] p /\ c = 1 -> ButtonAction.DOUBLE_HOLD
      [] p /\ c = 2 -> ButtonAction.TRIPLE_HOLD
      [] p /\ c = 3 -> ButtonAction.QUADRUPLE_HOLD
      [] OTHER -> None

\* ResolveAction with the many rule starting one click late
ResolveAction_ManyLate(p, c) ==
    IF ActionTable(p, c) # None THEN ActionTable(p, c)
    ELSE IF c > 3 /\ p THEN ButtonAction.MANY_HOLD
    ELSE IF c > 5 /\ ~p THEN ButtonAction.MANY
    ELSE Unknown

\* the except aio.TimeoutError block up to the on_click call: the action, or
\* Unknown where the code raises NotImplementedError
ResolveAction(p, c) ==
    IF ActionTable(p, c) # None THEN ActionTable(p, c)
    ELSE IF c > 3 /\ p THEN ButtonAction.MANY_HOLD
    ELSE IF c > 4 /\ ~p THEN ButtonAction.MANY
    ELSE Unknown

\* TimedBranch that waits with a timeout in every state
TimedBranch_Always(p, s, c) == TRUE

\* the test at the top of the while loop: a timed wait or a plain get
TimedBranch(p, s, c) == (p /\ ~s) \/ c # 0

LoopTop(p, s, c) == IF TimedBranch(p, s, c) THEN "wait" ELSE "get"

\* the button with nothing going on
ButtonIdle ==
    /\ ~is_pressed /\ ~is_sent /\ clicks_done = 0
    /\ event_queue = <<>> /\ bpc = "get"

NoScen == [phase |-> "none", events |-> 0, out |-> <<>>]

\* observer: follows the events put since the button was idle, as long as
\* they alternate key-down, key-up and each comes less than THRESHOLD after
\* the one before; "held" once a key-up follows an emitted hold
ScenPut(e) ==
    IF ButtonIdle /\ e = "key_down"
    THEN [phase |-> "burst", events |-> 1, out |-> <<>>]
    ELSE IF /\ scen.phase = "burst"
            /\ gap < THRESHOLD
            /\ scen.out = <<>>
            /\ e = (IF scen.events % 2 = 0 THEN "key_down" ELSE "key_up")
    THEN [scen EXCEPT !.events = @ + 1]
    ELSE IF /\ scen.phase = "burst" /\ scen.events = 1
            /\ scen.out = <<ButtonAction.HOLD>> /\ e = "key_up"
    THEN [scen EXCEPT !.phase = "held", !.events = 2]
    ELSE NoScen

ScenEmit(a) ==
    IF scen.phase = "none" \/ Len(scen.out) >= 3 THEN scen
    ELSE [scen EXCEPT !.out = Append(@, a)]

BInit ==
    /\ is_pressed = FALSE
    /\ is_sent = FALSE
    /\ clicks_done = 0
    /\ event_queue = <<>>
    /\ bpc = LoopTop(FALSE, FALSE, 0)
    /\ action = None
    /\ waited = 0
    /\ gap = 0
    /\ nput = 0
    /\ nget = 0
    /\ scen = NoScen
    /\ keystate = None

\* HandleEvents that loses an event read while on_click is being awaited
HandleEvents_DropBusy(e) ==
    /\ nput < MaxEvents
    /\ Len(event_queue) < MaxQueue
    /\ IF e \in KeyStates
       THEN /\ event_queue' = IF bpc \in {"cb_action", "cb_release"}
                               THEN event_queue
                               ELSE Append(event_queue,
                                           [kind |-> e, seq |-> nput + 1])
            /\ nput' = nput + 1
            /\ gap' = 0
            /\ scen' = ScenPut(e)
            /\ keystate' = e
       ELSE UNCHANGED <<event_queue, nput, gap, scen, keystate>>
    /\ UNCHANGED <<is_pressed, is_sent, clicks_done, bpc, action, waited, nget>>
    /\ UNCHANGED <<lvars, ovars>>

\* handle_events: one event read from the device; a key-up or key-down of a
\* watched scancode is put on the queue, anything else is passed over
HandleEvents(e) ==
    /\ nput < MaxEvents
    /\ Len(event_queue) < MaxQueue
    /\ IF e \in KeyStates
       THEN /\ event_queue' = Append(event_queue, [kind |-> e, seq |-> nput + 1])
            /\ nput' = nput + 1
            /\ gap' = 0
            /\ scen' = ScenPut(e)
            /\ keystate' = e
       ELSE UNCHANGED <<event_queue, nput, gap, scen, keystate>>
    /\ UNCHANGED <<is_pressed, is_sent, clicks_done, bpc, action, waited, nget>>
    /\ UNCHANGED <<lvars, ovars>>

\* handle_queue, timed branch, wait_for returned an event
TimedGet ==
    /\ bpc = "wait"
    /\ event_queue # <<>>
    /\ LET event == Head(event_queue).kind
           p == (event = "key_down")
           c == IF event = "key_up" THEN clicks_done + 1 ELSE clicks_done
       IN /\ clicks_done' = c
          /\ is_pressed' = p
          /\ bpc' = LoopTop(p, is_sent, c)
    /\ event_queue' = Tail(event_queue)
    /\ nget' = nget + 1
    /\ waited' = 0
    /\ UNCHANGED <<is_sent, action, gap, nput, scen>>
    /\ UNCHANGED keystate
    /\ UNCHANGED <<lvars, ovars>>

\* handle_queue, timed branch, wait_for timed out: resolve the gesture and
\* call on_click, or raise NotImplementedError
Timeout ==
    /\ bpc = "wait"
    /\ event_queue = <<>>
    /\ waited = THRESHOLD
    /\ LET a == ResolveAction(is_pressed, clicks_done)
       IN IF a = Unknown
          THEN /\ bpc' = "raised"
               /\ UNCHANGED <<action, scen>>
          ELSE /\ bpc' = "cb_action"
               /\ action' = a
               /\ scen' = ScenEmit(a)
    /\ UNCHANGED <<is_pressed, is_sent, clicks_done, event_queue, waited,
                   gap, nput, nget>>
    /\ UNCHANGED keystate
    /\ UNCHANGED <<lvars, ovars>>

\* OnClickReturn that forgets to remember the gesture as sent
OnClickReturn_NoSent ==
    /\ bpc = "cb_action"
    /\ clicks_done' = 0
    /\ bpc' = LoopTop(is_pressed, is_sent, 0)
    /\ waited' = 0
    /\ UNCHANGED <<is_pressed, is_sent, event_queue, action, gap, nput, nget,
                   scen>>
    /\ UNCHANGED keystate
    /\ UNCHANGED <<lvars, ovars>>

\* handle_queue: on_click(self, action) returned
OnClickReturn ==
    /\ bpc = "cb_action"
    /\ is_sent' = is_pressed
    /\ clicks_done' = 0
    /\ bpc' = LoopTop(is_pressed, is_pressed, 0)
    /\ waited' = 0
    /\ UNCHANGED <<is_pressed, event_queue, action, gap, nput, nget, scen>>
    /\ UNCHANGED keystate
    /\ UNCHANGED <<lvars, ovars>>

\* PlainGet that reports no release
PlainGet_NoRelease ==
    /\ bpc = "get"
    /\ event_queue # <<>>
    /\ is_pressed' = (Head(event_queue).kind = "key_down")
    /\ is_sent' = FALSE
    /\ bpc' = LoopTop(is_pressed', FALSE, clicks_done)
    /\ waited' = 0
    /\ event_queue' = Tail(event_queue)
    /\ nget' = nget + 1
    /\ UNCHANGED <<clicks_done, action, gap, nput, scen>>
    /\ UNCHANGED keystate
    /\ UNCHANGED <<lvars, ovars>>

\* handle_queue, untimed branch: event_queue.get() returned an event
PlainGet ==
    /\ bpc = "get"
    /\ event_queue # <<>>
    /\ LET event == Head(event_queue).kind
       IN IF event = "key_up"
          THEN /\ is_pressed' = FALSE
               /\ action' = ButtonAction.RELEASE
               /\ scen' = ScenEmit(ButtonAction.RELEASE)
               /\ bpc' = "cb_release"
               /\ UNCHANGED <<is_sent, waited>>
          ELSE /\ is_pressed' = TRUE
               /\ is_sent' = FALSE
               /\ bpc' = LoopTop(TRUE, FALSE, clicks_done)
               /\ waited' = 0
               /\ UNCHANGED <<action, scen>>
    /\ event_queue' = Tail(event_queue)
    /\ nget' = nget + 1
    /\ UNCHANGED <<clicks_done, gap, nput>>
    /\ UNCHANGED keystate
    /\ UNCHANGED <<lvars, ovars>>

\* OnReleaseReturn that leaves is_sent as it is
OnReleaseReturn_KeepSent ==
    /\ bpc = "cb_release"
    /\ bpc' = LoopTop(is_pressed, is_sent, clicks_done)
    /\ waited' = 0
    /\ UNCHANGED <<is_pressed, is_sent, clicks_done, event_queue, action, gap,
                   nput, nget, scen>>
    /\ UNCHANGED keystate
    /\ UNCHANGED <<lvars, ovars>>

\* handle_queue, untimed branch: on_click(self, RELEASE) returned
OnReleaseReturn ==
    /\ bpc = "cb_release"
    /\ is_sent' = FALSE
    /\ bpc' = LoopTop(is_pressed, FALSE, clicks_done)
    /\ waited' = 0
    /\ UNCHANGED <<is_pressed, clicks_done, event_queue, action, gap, nput,
                   nget, scen>>
    /\ UNCHANGED keystate
    /\ UNCHANGED <<lvars, ovars>>

\* a tenth of a second passes.  The event loop runs a ready task before it
\* sleeps: no time passes while a get can return or a timeout is due.
Tick ==
    /\ ~(bpc \in {"get", "wait"} /\ event_queue # <<>>)
    /\ ~(bpc = "wait" /\ waited = THRESHOLD)
    /\ waited' = IF bpc = "wait" THEN waited + 1 ELSE waited
    /\ gap' = IF gap <= THRESHOLD THEN gap + 1 ELSE gap
    /\ UNCHANGED <<is_pressed, is_sent, clicks_done, event_queue, bpc, action,
                   nput, nget, scen>>
    /\ UNCHANGED keystate
    /\ UNCHANGED <<lvars, ovars>>

BNext ==
    \/ \E e \in DeviceEvents : HandleEvents(e)
    \/ TimedGet
    \/ Timeout
    \/ OnClickReturn
    \/ PlainGet
    \/ OnReleaseReturn
    \/ Tick

\* ================================================================ light

\* a key the request dict does not have: as a state, as a number, as a color
Absent == "absent"
AbsentInt == 0 - 1
AbsentColor == [r |-> AbsentInt, g |-> AbsentInt, b |-> AbsentInt]

Black == [r |-> 0, g |-> 0, b |-> 0]
White == [r |-> 255, g |-> 255, b |-> 255]

\* the requests the set topic delivers: every key may be missing;
\* transition is in milliseconds (5 is 0.005 s, 0 - 1000 is -1 s)
ReqStates == {"ON", "OFF", Absent}
ReqBrightness == {0, 100, 255, 300, AbsentInt}
ReqColors == {Black, [r |-> 10, g |-> 20, b |-> 30], AbsentColor}
ReqTransitions == {0, 5, 500, 1500, 0 - 500, 0 - 1000, AbsentInt}
Requests ==
    [state : ReqStates, brightness : ReqBrightness, color : ReqColors,
     transition : ReqTransitions]

\* pwm_max as platform.lights() sets it: the legacy and the current LED paths
PwmMaxValues == {100, 255}

\* value.get('transition', 1), in milliseconds
DefaultTransition == 1000

\* Python's round() of n/d for d > 0: to the nearest integer, a tie to the
\* even one
PyRound(n, d) ==
    LET q == (2 * n + d) \div (2 * d)
    IN IF (2 * n + d) % (2 * d) = 0 /\ q % 2 # 0 THEN q - 1 ELSE q

\* Python's int() of n/d for d > 0: towards zero
Trunc(n, d) == IF n >= 0 THEN n \div d ELSE -((-n) \div d)

\* A brightness level: the float num/den, or for eps # 0 a float a rounding
\* error below (-1) or above (1) it.  The levels of a fade are sums of float
\* steps and come out exact or a rounding error off; which do is not
\* modelled, every sum may.
Lvl(b) == [num |-> b, den |-> 1, eps |-> 0]

ToLevel(n, d, e) ==
    IF n % d = 0 THEN [num |-> n \div d, den |-> 1, eps |-> e]
    ELSE [num |-> n, den |-> d, eps |-> e]

LevelLE(a, b) ==
    \/ a.num * b.den < b.num * a.den
    \/ a.num * b.den = b.num * a.den /\ a.eps <= b.eps

\* PwmValue without the range test
PwmValue_NoRange(c, lvl, st, pmax) ==
    LET n == c * pmax * lvl.num
        d == 65025 * lvl.den
        q == Trunc(n, d)
        v == IF lvl.eps < 0 /\ n > 0 /\ n % d = 0 THEN q - 1 ELSE q
    IN IF st = "OFF" THEN 0 ELSE v

\* PwmValue without the test for state off
PwmValue_NoOff(c, lvl, st, pmax) ==
    LET n == c * pmax * lvl.num
        d == 65025 * lvl.den
        q == Trunc(n, d)
        v == IF lvl.eps < 0 /\ n > 0 /\ n % d = 0 THEN q - 1 ELSE q
    IN IF 0 <= v /\ v <= pmax THEN v ELSE 0

\* Light.write, the body of the for loop: the value written to one channel,
\* int((color[c] * pwm_max / 255) * brightness / 255), 0 when the state is off
\* and 0 when out of range
PwmValue(c, lvl, st, pmax) ==
    LET n == c * pmax * lvl.num
        d == 65025 * lvl.den
        q == Trunc(n, d)
        v == IF lvl.eps < 0 /\ n > 0 /\ n % d = 0 THEN q - 1 ELSE q
        w == IF st = "OFF" THEN 0 ELSE v
    IN IF 0 <= w /\ w <= pmax THEN w ELSE 0

\* Light.write: the frame written for state st, color c and brightness lvl
Write(st, c, lvl) ==
    [state |-> st, brightness |-> lvl, color |-> c,
     pwm |-> [r |-> PwmValue(c.r, lvl, st, pwm_max),
              g |-> PwmValue(c.g, lvl, st, pwm_max),
              b |-> PwmValue(c.b, lvl, st, pwm_max)]]

\* Light.write(v) with the value.get defaults taken from self.state = self_
WriteValue(v, self_) ==
    Write(IF v.state # Absent THEN v.state ELSE self_.state,
          IF v.color # AbsentColor THEN v.color ELSE self_.color,
          IF v.brightness # AbsentInt THEN Lvl(v.brightness)
          ELSE Lvl(self_.brightness))

NoLoc ==
    [path |-> "none", state |-> "OFF", brightness |-> 0, color |-> Black,
     target |-> 0, start |-> 0, end |-> 0, steps |-> 0, fadeout |-> FALSE,
     lnum |-> 0, eps |-> 0, k |-> 0,
     self_ |-> [state |-> "OFF", brightness |-> 0, color |-> Black],
     before |-> [state |-> "OFF", brightness |-> 0, color |-> Black],
     transition |-> 0,
     val |-> [state |-> Absent, brightness |-> AbsentInt,
              color |-> AbsentColor, transition |-> AbsentInt]]

\* no frame written yet
NoFrame ==
    [state |-> Absent, brightness |-> Lvl(0), color |-> AbsentColor,
     pwm |-> AbsentColor]

NoRequest ==
    [state |-> Absent, brightness |-> AbsentInt, color |-> AbsentColor,
     transition |-> AbsentInt]

\* Light.__init__: the state read back from the three brightness files
LInit ==
    /\ pwm_max \in PwmMaxValues
    /\ \E on \in BOOLEAN :
          led = IF on THEN [r |-> pwm_max, g |-> pwm_max, b |-> pwm_max]
                ELSE [r |-> 0, g |-> 0, b |-> 0]
    /\ lstate = [state |-> IF led.r # 0 \/ led.g # 0 \/ led.b # 0
                           THEN "ON" ELSE "OFF",
                 brightness |-> 255,
                 color |-> [r |-> Trunc(led.r * 255, pwm_max),
                            g |-> Trunc(led.g * 255, pwm_max),
                            b |-> Trunc(led.b * 255, pwm_max)]]
    /\ lpc = "idle"
    /\ value = NoRequest
    /\ loc = NoLoc
    /\ frame = NoFrame
    /\ pframe = NoFrame
    /\ nframes = 0

\* Light.set, the lines before `if transition`: the locals it computes.
\* color is the dict of the request, or self.state['color'] itself when the
\* request has none; the white substitution changes that dict in place, so
\* self_ is self.state as the writes of this call see it and val the request
\* as they see it.  before is self.state as it was when the call was made.
SetLocals(v) ==
    LET st == IF v.state # Absent THEN v.state ELSE lstate.state
        c0 == IF v.color # AbsentColor THEN v.color ELSE lstate.color
        b == IF v.brightness # AbsentInt THEN v.brightness ELSE lstate.brightness
        off == lstate.state = "OFF"
        col == IF off /\ c0 = Black THEN White ELSE c0
        tr == IF v.transition # AbsentInt THEN v.transition ELSE DefaultTransition
        cur == IF off THEN 0 ELSE lstate.brightness
        tgt == IF st = "OFF" THEN 0 ELSE b
    IN [path |-> "none", state |-> st, brightness |-> b, color |-> col,
        target |-> tgt, start |-> cur, end |-> tgt,
        steps |-> 12 * PyRound(tr + 490, 1000), fadeout |-> cur > tgt,
        lnum |-> 0, eps |-> 0, k |-> 0,
        self_ |-> [lstate EXCEPT !.color = IF v.color = AbsentColor THEN col ELSE @],
        before |-> lstate,
        transition |-> tr,
        val |-> [v EXCEPT !.color = IF @ = AbsentColor THEN @ ELSE col]]

\* NextLevel with the step taken away from the end level
NextLevel_Away(l, e) ==
    LET rng == IF l.fadeout THEN l.start - l.end ELSE l.end - l.start
        raw == IF l.fadeout THEN l.lnum + rng ELSE l.lnum - rng
    IN [lnum |-> raw, eps |-> e]

\* Light.set, the body of the for loop up to the write: the next level in
\* units of 1/steps, off by the rounding error e, stopped at the end level
NextLevel(l, e) ==
    LET rng == IF l.fadeout THEN l.start - l.end ELSE l.end - l.start
        raw == IF l.fadeout THEN l.lnum - rng ELSE l.lnum + rng
        lim == l.end * l.steps
    IN IF l.fadeout /\ (raw < lim \/ (raw = lim /\ e < 0))
       THEN [lnum |-> lim, eps |-> 0]
       ELSE IF ~l.fadeout /\ (raw > lim \/ (raw = lim /\ e > 0))
       THEN [lnum |-> lim, eps |-> 0]
       ELSE [lnum |-> raw, eps |-> e]

RoundingErrors == {0 - 1, 0, 1}

\* Light.set, the rest of the body of the for loop: the frame of level nl
LoopFrame(l, nl) ==
    Write("ON",
          IF l.val.color # AbsentColor THEN l.val.color ELSE l.self_.color,
          ToLevel(nl.lnum, l.steps, nl.eps))

\* Light.write, the for loop: the files of r, g and b written one after the
\* other, the first n of them; there is no await between them
WriteFiles(old, pwm, n) ==
    [r |-> IF n >= 1 THEN pwm.r ELSE old.r,
     g |-> IF n >= 2 THEN pwm.g ELSE old.g,
     b |-> IF n >= 3 THEN pwm.b ELSE old.b]

\* Written with the task suspended before the file of b is written
Written_Partial(fr, old, n) ==
    /\ frame' = fr
    /\ pframe' = old
    /\ nframes' = n + 1
    /\ led' = WriteFiles(led, fr.pwm, 2)

\* one more frame written by the current call
Written(fr, old, n) ==
    /\ frame' = fr
    /\ pframe' = old
    /\ nframes' = n + 1
    /\ led' = WriteFiles(led, fr.pwm, 3)

\* Light.set: self.state = {...} and return
SetDone(l) ==
    /\ lstate' = [state |-> l.state, brightness |-> l.brightness,
                  color |-> l.color]
    /\ lpc' = "done"

\* SetTail that leaves out the last write
SetTail_NoFinalWrite(l, lvl, old, n) ==
    /\ UNCHANGED <<frame, pframe, nframes, led>>
    /\ SetDone(l)

\* Light.set, after the for loop: one more write when the level reached is
\* not the target brightness, then self.state
SetTail(l, lvl, old, n) ==
    /\ IF lvl # Lvl(l.target)
       THEN Written(WriteValue([l.val EXCEPT !.brightness = l.target], l.self_),
                    old, n)
       ELSE UNCHANGED <<frame, pframe, nframes, led>>
    /\ SetDone(l)

\* Light.set(v) from the call to its first suspension: the whole call when
\* it does not fade, else up to the sleep after the first frame
SetCall(v) ==
    /\ lpc = "idle"
    /\ value' = v
    /\ \E l0 \in {SetLocals(v)} :
          IF l0.transition = 0
          THEN \* else branch: one write
               /\ loc' = [l0 EXCEPT !.path = "direct"]
               /\ Written(WriteValue(l0.val, l0.self_), NoFrame, 0)
               /\ SetDone(l0)
          ELSE IF l0.start = l0.end
          THEN /\ loc' = [l0 EXCEPT !.path = "same"]
               /\ Written(WriteValue(l0.val, l0.self_), NoFrame, 0)
               /\ SetDone(l0)
          ELSE IF l0.steps = 0
          THEN \* step_by = total_range / steps: ZeroDivisionError
               /\ loc' = [l0 EXCEPT !.path = "fade"]
               /\ lstate' = l0.self_
               /\ lpc' = "raised"
               /\ UNCHANGED <<frame, pframe, nframes, led>>
          ELSE IF l0.steps < 0
          THEN \* range(steps) is empty
               /\ loc' = [l0 EXCEPT !.path = "fade"]
               /\ SetTail(l0, Lvl(l0.start), NoFrame, 0)
          ELSE \E e \in RoundingErrors,
                  l1 \in {[l0 EXCEPT !.path = "fade",
                                     !.lnum = l0.start * l0.steps]} :
               \E nl \in {NextLevel(l1, e)} :
                  /\ loc' = [l1 EXCEPT !.lnum = nl.lnum, !.eps = nl.eps,
                                       !.k = 1]
                  /\ lstate' = l1.self_
                  /\ Written(LoopFrame(l1, nl), NoFrame, 0)
                  /\ lpc' = "sleep"
    /\ UNCHANGED pwm_max

\* Light.set called on its own
LightSet(v) == SetCall(v) /\ UNCHANGED <<bvars, ovars>>

\* Light.set: aio.sleep(delay) returned and the for loop goes on
LightStep ==
    /\ lpc = "sleep"
    /\ loc.k < loc.steps
    /\ \E e \in RoundingErrors :
          \E nl \in {NextLevel(loc, e)} :
             /\ loc' = [loc EXCEPT !.lnum = nl.lnum, !.eps = nl.eps,
                                   !.k = @ + 1]
             /\ Written(LoopFrame(loc, nl), frame, nframes)
    /\ UNCHANGED <<pwm_max, lstate, lpc, value>>
    /\ UNCHANGED <<bvars, ovars>>

\* Light.set: the last aio.sleep(delay) returned, the for loop is over
LightFinish ==
    /\ lpc = "sleep"
    /\ loc.k = loc.steps
    /\ SetTail(loc, ToLevel(loc.lnum, loc.steps, loc.eps), frame, nframes)
    /\ UNCHANGED <<pwm_max, value, loc>>
    /\ UNCHANGED <<bvars, ovars>>

\* Light.set: the task that awaits it is cancelled; CancelledError is raised
\* at aio.sleep(delay), the one place where Light.set is suspended
SetCancelled ==
    /\ lpc = "sleep"
    /\ lpc' = "cancelled"
    /\ UNCHANGED <<pwm_max, led, lstate, value, loc, frame, pframe, nframes>>

\* a Light.set called on its own is cancelled
LightCancel == SetCancelled /\ UNCHANGED <<bvars, ovars>>

\* Light.set is over: its caller has the result or the exception, and the
\* locals of the call are gone
SetOver ==
    /\ lpc \in {"done", "raised", "cancelled"}
    /\ lpc' = "idle"
    /\ value' = NoRequest
    /\ loc' = NoLoc
    /\ frame' = NoFrame
    /\ pframe' = NoFrame
    /\ nframes' = 0
    /\ UNCHANGED <<pwm_max, led, lstate>>

\* a Light.set called on its own is over
LightReturn == SetOver /\ UNCHANGED <<bvars, ovars>>

LNext ==
    \/ \E v \in Requests : LightSet(v)
    \/ LightStep
    \/ LightFinish
    \/ LightCancel
    \/ LightReturn

\* =============================================================== client

\* aio_mqtt.Client(): not connected
CInit ==
    /\ connected = FALSE
    /\ ndrops = 0

\* =============================================================== intake

\* LumiMqtt.lights: the lights registered, by name; Light.topic is the name
Lights == {"light", "light2"}

TopicRoot == "lumi"

\* LumiMqtt._get_topic: f'{topic_root}/{subtopic}', a topic as its levels
GetTopic(sub) == <<TopicRoot>> \o sub

\* Light.topic_set: f'{topic}/set'
TopicSetOf(l) == <<l, "set">>

\* LumiMqtt.subscribed_topics
SubscribedTopics == {GetTopic(TopicSetOf(l)) : l \in Lights}

\* what delivered_messages(f'{topic_root}/#') can yield: the set topics and,
\* as a topic under the root that is no set topic, the state topic of a light
InboundTopics == SubscribedTopics \cup {GetTopic(<<"light">>)}

\* A payload: the text of a JSON object (value is the dict json.loads makes
\* of it), the text of a JSON value that is no object, or no JSON at all.
ReqOn ==
    [state |-> "ON", brightness |-> 100,
     color |-> [r |-> 10, g |-> 20, b |-> 30], transition |-> AbsentInt]

ReqOff ==
    [state |-> "OFF", brightness |-> AbsentInt, color |-> AbsentColor,
     transition |-> 500]

Payloads ==
    {[json |-> "object", value |-> ReqOn],
     [json |-> "object", value |-> ReqOff],
     [json |-> "scalar", value |-> NoRequest],
     [json |-> "malformed", value |-> NoRequest]}

\* JsonLoads that makes an empty dict of what is no JSON
JsonLoads_Lenient(p) == [ok |-> TRUE, value |-> p.value]

\* json.loads(message.payload): the value, or ValueError
JsonLoads(p) ==
    IF p.json = "malformed" THEN [ok |-> FALSE, value |-> NoRequest]
    ELSE [ok |-> TRUE, value |-> p.value]

NoMessage ==
    [id |-> 0, topic |-> <<>>,
     payload |-> [json |-> "malformed", value |-> NoRequest]]

NoState == [state |-> Absent, brightness |-> AbsentInt, color |-> AbsentColor]

NoEcho == [id |-> 0, topic |-> <<>>, payload |-> NoState]

NoLog == [id |-> 0, what |-> "none"]

\* the entry of parked for the light that lstate and led describe
Here == [lstate |-> NoState, led |-> AbsentColor]

\* light.state and the channels of light l
StateOf(l) == IF l = light THEN lstate ELSE parked[l].lstate

LedOf(l) == IF l = light THEN led ELSE parked[l].led

\* the for loop over self.lights: the light whose set topic is t
FindLight(t) == CHOOSE l \in Lights : t = GetTopic(TopicSetOf(l))

\* Light.__init__ with the three brightness files holding 0
DarkLight ==
    [lstate |-> [state |-> "OFF", brightness |-> 255, color |-> Black],
     led |-> Black]

\* LumiMqtt.__init__ and register: no message yet; the lights other than
\* the first are dark
MInit ==
    /\ inbox = <<>>
    /\ nrecv = 0
    /\ mpc = "next"
    /\ message = NoMessage
    /\ light = "light"
    /\ parked = [l \in Lights |->
                   IF l = "light" THEN Here ELSE DarkLight]
    /\ echo = NoEcho
    /\ logged = NoLog

\* The loop at lines 406-408 has no await: once in it, no task of the
\* event loop runs again.
Running == mpc # "spin"

\* every task is at an await: the client and the clock act only then
Suspended == mpc # "call" /\ ppc # "for"

\* the client has a message of the broker for delivered_messages
Deliver(t, p) ==
    /\ Running
    /\ Suspended
    /\ connected
    /\ nrecv < MaxMessages
    /\ Len(inbox) < MaxInbox
    /\ nrecv' = nrecv + 1
    /\ inbox' = Append(inbox, [id |-> nrecv + 1, topic |-> t, payload |-> p])
    /\ UNCHANGED <<mpc, message, light, parked, echo, logged>>
    /\ UNCHANGED <<bvars, lvars, cvars, svars, kvars, tvars>>

\* the connection is closed
ClientDown ==
    /\ Running
    /\ Suspended
    /\ connected
    /\ ndrops < MaxDrops
    /\ connected' = FALSE
    /\ ndrops' = ndrops + 1
    /\ UNCHANGED <<bvars, lvars, mvars, svars, kvars, tvars>>

\* the client is connected
ClientUp ==
    /\ Running
    /\ Suspended
    /\ ~connected
    /\ connected' = TRUE
    /\ UNCHANGED ndrops
    /\ UNCHANGED <<bvars, lvars, mvars, svars, kvars, tvars>>

\* light = _light: lstate and led are from now on those of light l
Bind(l) ==
    IF l = light
    THEN UNCHANGED <<light, parked, lstate, led>>
    ELSE /\ light' = l
         /\ lstate' = parked[l].lstate
         /\ led' = parked[l].led
         /\ parked' = [parked EXCEPT ![light] = [lstate |-> lstate, led |-> led],
                                     ![l] = Here]

\* MsgTake that takes the next message while light.set is still awaited
MsgTake_Concurrent ==
    /\ mpc \in {"next", "set"}
    /\ inbox # <<>>
    /\ LET m == Head(inbox)
       IN /\ message' = m
          /\ inbox' = Tail(inbox)
          /\ IF m.topic \notin SubscribedTopics
             THEN \* continue, in while True: the same test again, for ever
                  /\ mpc' = "spin"
                  /\ UNCHANGED <<logged, light, parked, lstate, led>>
             ELSE IF ~JsonLoads(m.payload).ok
             THEN \* except ValueError: logger.exception, break
                  /\ mpc' = "next"
                  /\ logged' = [id |-> m.id, what |-> "ValueError"]
                  /\ UNCHANGED <<light, parked, lstate, led>>
             ELSE /\ mpc' = "call"
                  /\ Bind(FindLight(m.topic))
                  /\ UNCHANGED logged
    /\ UNCHANGED <<nrecv, echo>>
    /\ UNCHANGED <<pwm_max, lpc, value, loc, frame, pframe, nframes>>
    /\ UNCHANGED <<bvars, cvars, svars, kvars, tvars>>

\* _handle_messages, lines 403-421: delivered_messages yields a message; the
\* topic test, the search for the light and json.loads.  `if not light` is
\* never true: a topic of subscribed_topics is the set topic of a light.
MsgTake ==
    /\ mpc = "next"
    /\ inbox # <<>>
    /\ LET m == Head(inbox)
       IN /\ message' = m
          /\ inbox' = Tail(inbox)
          /\ IF m.topic \notin SubscribedTopics
             THEN \* continue, in while True: the same test again, for ever
                  /\ mpc' = "spin"
                  /\ UNCHANGED <<logged, light, parked, lstate, led>>
             ELSE IF ~JsonLoads(m.payload).ok
             THEN \* except ValueError: logger.exception, break
                  /\ mpc' = "next"
                  /\ logged' = [id |-> m.id, what |-> "ValueError"]
                  /\ UNCHANGED <<light, parked, lstate, led>>
             ELSE /\ mpc' = "call"
                  /\ Bind(FindLight(m.topic))
                  /\ UNCHANGED logged
    /\ UNCHANGED <<nrecv, echo>>
    /\ UNCHANGED <<pwm_max, lpc, value, loc, frame, pframe, nframes>>
    /\ UNCHANGED <<bvars, cvars, svars, kvars, tvars>>

\* line 423: light.set(value) is called and runs to its first suspension;
\* value.get of a value that is no dict raises AttributeError
MsgCall ==
    /\ mpc = "call"
    /\ IF message.payload.json = "object"
       THEN SetCall(JsonLoads(message.payload).value)
       ELSE /\ lpc' = "raised"
            /\ UNCHANGED <<pwm_max, led, lstate, value, loc, frame, pframe,
                           nframes>>
    /\ mpc' = "set"
    /\ UNCHANGED <<inbox, nrecv, message, light, parked, echo, logged>>
    /\ UNCHANGED <<bvars, cvars, svars, kvars, tvars>>

\* light.set has returned and the publish of line 424 is awaited
AwaitingPublish == mpc = "set" /\ lpc = "done"

\* MsgPublished with the payload made of the state before the call
MsgPublished_Before ==
    /\ AwaitingPublish
    /\ connected
    /\ echo' = [id |-> message.id, topic |-> GetTopic(<<light>>),
                payload |-> loc.before]
    /\ SetOver
    /\ mpc' = "next"
    /\ UNCHANGED <<inbox, nrecv, message, light, parked, logged>>
    /\ UNCHANGED <<bvars, cvars, svars, kvars, tvars>>

\* lines 424-430 and 441: the publish of json.dumps(light.state) on the state
\* topic is acknowledged; break
MsgPublished ==
    /\ AwaitingPublish
    /\ connected
    /\ echo' = [id |-> message.id, topic |-> GetTopic(<<light>>),
                payload |-> lstate]
    /\ SetOver
    /\ mpc' = "next"
    /\ UNCHANGED <<inbox, nrecv, message, light, parked, logged>>
    /\ UNCHANGED <<bvars, cvars, svars, kvars, tvars>>

\* lines 431-434: the publish raises ConnectionClosedError;
\* wait_for_connect is awaited
MsgPublishClosed ==
    /\ AwaitingPublish
    /\ ~connected
    /\ logged' = [id |-> message.id, what |-> "Connection closed"]
    /\ SetOver
    /\ mpc' = "reconnect"
    /\ UNCHANGED <<inbox, nrecv, message, light, parked, echo>>
    /\ UNCHANGED <<bvars, cvars, svars, kvars, tvars>>

\* lines 435-441: the publish raises another exception; break
MsgPublishError ==
    /\ AwaitingPublish
    /\ logged' = [id |-> message.id, what |-> "Unhandled exception"]
    /\ SetOver
    /\ mpc' = "next"
    /\ UNCHANGED <<inbox, nrecv, message, light, parked, echo>>
    /\ UNCHANGED <<bvars, cvars, svars, kvars, tvars>>

\* lines 435-441: light.set raised; break
MsgSetRaised ==
    /\ mpc = "set"
    /\ lpc = "raised"
    /\ logged' = [id |-> message.id, what |-> "Unhandled exception"]
    /\ SetOver
    /\ mpc' = "next"
    /\ UNCHANGED <<inbox, nrecv, message, light, parked, echo>>
    /\ UNCHANGED <<bvars, cvars, svars, kvars, tvars>>

\* MsgReconnected with break in the place of continue
MsgReconnected_Break ==
    /\ mpc = "reconnect"
    /\ connected
    /\ mpc' = "next"
    /\ UNCHANGED <<inbox, nrecv, message, light, parked, echo, logged>>
    /\ UNCHANGED <<bvars, lvars, cvars, svars, kvars, tvars>>

\* lines 433-434: wait_for_connect returned; continue, in while True: the
\* same message passes the topic test and json.loads as before
MsgReconnected ==
    /\ mpc = "reconnect"
    /\ connected
    /\ mpc' = "call"
    /\ UNCHANGED <<inbox, nrecv, message, light, parked, echo, logged>>
    /\ UNCHANGED <<bvars, lvars, cvars, svars, kvars, tvars>>

\* the steps of the task _handle_messages that end in something other than
\* an exception of the publish that is not connection-closed
Handler ==
    \/ MsgTake
    \/ MsgCall
    \/ LightStep
    \/ LightFinish
    \/ MsgSetRaised
    \/ MsgPublished
    \/ MsgPublishClosed
    \/ MsgReconnected

MNext ==
    \/ \E t \in InboundTopics, p \in Payloads : Deliver(t, p)
    \/ ClientDown
    \/ ClientUp
    \/ MsgTake
    \/ MsgCall
    \/ LightStep
    \/ LightFinish
    \/ MsgPublished
    \/ MsgPublishClosed
    \/ MsgPublishError
    \/ MsgSetRaised
    \/ MsgReconnected

\* ============================================================== sensors

\* LumiMqtt.sensors as platform.sensors() makes it: the illuminance sensor,
\* then the binary sensors of the configuration
Sensors ==
    <<[name |-> "illuminance", binary |-> FALSE],
      [name |-> "motion", binary |-> TRUE]>>

SensorNames == {Sensors[i].name : i \in 1 .. Len(Sensors)}

\* LumiMqtt._is_binary
IsBinary(s) == s.binary

\* sensor_threshold and sensor_debounce_period of the default configuration
SensorThreshold == 50
SensorDebouncePeriod == 60

\* timedelta.seconds is the seconds of the last, unfinished day
DaySeconds == 86400

\* what read_raw() returns for the illuminance file: a number as text,
\* or (AbsentInt) None or a text that is no number
IlluminanceRaw == {400, 440, 600, AbsentInt}

\* what read_raw() returns for a GPIO value file; Absent is None
BinaryRaw == {"0", "1", Absent}

RawValues(s) == IF IsBinary(s) THEN BinaryRaw ELSE IlluminanceRaw

\* a reading: which sensor, whether get_value returned, and the value, a
\* number (num) or ON/OFF (bin)
Reading(s, ok, n, b) == [sensor |-> s.name, ok |-> ok, num |-> n, bin |-> b]

NoReading == [sensor |-> "none", ok |-> FALSE, num |-> 0, bin |-> "none"]

\* BinarySensor.get_value and IlluminanceSensor.get_value of raw text r:
\* int(int(raw_value) * 0.25) raises for None and for a text that is no
\* number
GetValue(s, r) ==
    IF IsBinary(s)
    THEN Reading(s, TRUE, 0, IF r = "0" THEN "OFF" ELSE "ON")
    ELSE IF r = AbsentInt THEN Reading(s, FALSE, 0, "none")
    ELSE Reading(s, TRUE, Trunc(r * 25, 100), "none")

\* _debounce_sensors.get(sensor) is None
NoRecord == [set |-> FALSE, num |-> 0, bin |-> "none", last_sent |-> 0]

\* DebounceSensor(value=value, last_sent=datetime.now())
DebounceSensor(v, t) ==
    [set |-> TRUE, num |-> v.num, bin |-> v.bin, last_sent |-> t]

Abs(x) == IF x < 0 THEN 0 - x ELSE x

\* (datetime.now() - last_sent).seconds, for a clock that does not go back
Seconds(t, last_sent) == (t - last_sent) % DaySeconds

\* should_send of lines 552-564, for reading v of sensor s, record d, time t
ShouldSend(s, v, d, t) ==
    IF IsBinary(s)
    THEN ~d.set \/ v.bin # d.bin
    ELSE \/ ~d.set
         \/ Abs(v.num - d.num) >= SensorThreshold
         \/ Seconds(t, d.last_sent) >= SensorDebouncePeriod

\* aio.sleep(1) returns after a second or later: the times, in seconds, the
\* clock has advanced by when the task runs again
Delays == {10, 51, 86339}

\* LumiMqtt.__init__: no record; the task has not run yet
PInit ==
    /\ now = 0
    /\ debounce = [n \in SensorNames |-> NoRecord]
    /\ ppc = "top"
    /\ idx = 0
    /\ got = NoReading
    /\ sent = [n \in SensorNames |-> NoRecord]
    /\ nticks = 0

\* the for loop goes on after sensor i: the next sensor, or after the last
\* one aio.sleep(period)
NextSensor(i) ==
    IF i < Len(Sensors)
    THEN ppc' = "for" /\ idx' = i + 1
    ELSE ppc' = "sleep" /\ idx' = 0

\* lines 544-548: the test of is_connected at the top of while True
PeriodicTop ==
    /\ ppc = "top"
    /\ IF connected THEN ppc' = "for" /\ idx' = 1
       ELSE ppc' = "idle" /\ idx' = 0
    /\ UNCHANGED <<now, debounce, got, sent, nticks>>
    /\ UNCHANGED <<bvars, lvars, cvars, mvars, kvars, tvars>>

\* lines 546-547 and 586: the sleep returns, d seconds later
PeriodicWake(d) ==
    /\ ppc \in {"idle", "sleep"}
    /\ nticks < MaxTicks
    /\ now' = now + d
    /\ nticks' = nticks + 1
    /\ ppc' = "top"
    /\ UNCHANGED <<debounce, idx, got, sent>>
    /\ UNCHANGED <<bvars, lvars, cvars, mvars, kvars, tvars>>

\* lines 549-578, the body of the for loop for the sensor s at idx, whose
\* file reads r: get_value, should_send, and when it is true the record and
\* the call of publish.  An exception of get_value is caught by no except
\* clause of _periodic_publish and ends the task.
SensorBody(s, r) ==
    /\ \E v \in {GetValue(s, r)} :
          /\ got' = v
          /\ IF ~v.ok
             THEN /\ ppc' = "raised"
                  /\ UNCHANGED <<debounce, idx>>
             ELSE IF ShouldSend(s, v, debounce[s.name], now)
             THEN /\ debounce' = [debounce EXCEPT
                                    ![s.name] = DebounceSensor(v, now)]
                  /\ ppc' = "publish"
                  /\ UNCHANGED idx
             ELSE /\ NextSensor(idx)
                  /\ UNCHANGED debounce
    /\ UNCHANGED <<now, sent, nticks>>
    /\ UNCHANGED <<bvars, lvars, cvars, mvars, kvars, tvars>>

PeriodicSensor ==
    /\ ppc = "for"
    /\ \E r \in RawValues(Sensors[idx]) : SensorBody(Sensors[idx], r)

\* lines 571-578: the publish of the value is acknowledged
PeriodicPublished ==
    /\ ppc = "publish"
    /\ connected
    /\ sent' = [sent EXCEPT ![Sensors[idx].name] = debounce[Sensors[idx].name]]
    /\ NextSensor(idx)
    /\ UNCHANGED <<now, debounce, got, nticks>>
    /\ UNCHANGED <<bvars, lvars, cvars, mvars, kvars, tvars>>

\* lines 579-584: the publish raises ConnectionClosedError or
\* ServerDiedError; wait_for_connect is awaited
PeriodicPublishClosed ==
    /\ ppc = "publish"
    /\ ~connected
    /\ ppc' = "reconnect"
    /\ UNCHANGED <<now, debounce, idx, got, sent, nticks>>
    /\ UNCHANGED <<bvars, lvars, cvars, mvars, kvars, tvars>>

\* lines 584-585: wait_for_connect returned; continue, in the for loop
PeriodicReconnected ==
    /\ ppc = "reconnect"
    /\ connected
    /\ NextSensor(idx)
    /\ UNCHANGED <<now, debounce, got, sent, nticks>>
    /\ UNCHANGED <<bvars, lvars, cvars, mvars, kvars, tvars>>

PNext ==
    \/ ClientDown
    \/ ClientUp
    \/ PeriodicTop
    \/ \E d \in Delays : PeriodicWake(d)
    \/ PeriodicSensor
    \/ PeriodicPublished
    \/ PeriodicPublishClosed
    \/ PeriodicReconnected

\* ============================================================== connect

\* reconnection_interval, the default of LumiMqtt.__init__ and what
\* __main__ passes
ReconnectionInterval == 10

\* the awaits of the try block: client.connect, publish of online,
\* subscribe, send_config, connect_result.disconnect_reason
Awaits == {"connect", "online", "subscribe", "config", "session"}

\* how the task can be over
Over == {"returned", "raised", "cancelled"}

\* the exceptions of the except clause that sleeps and retries
Recoverable ==
    {"ConnectionLostError", "ConnectFailedError", "ServerDiedError"}

\* what an await of the try block can raise, by the except clause that
\* takes it; "Exception" is any exception no earlier clause names
Raised ==
    Recoverable \cup
    {"CancelledError", "AccessRefusedError", "ConnectionCloseForcedError",
     "Exception"}

\* what the manager hands to the client: a message to publish or a topic
\* to subscribe to
Sent(kind, topic, payload, retain) ==
    [kind |-> kind, topic |-> topic, payload |-> payload, retain |-> retain]

\* self._topic_lwt = f'{topic_root}/status'
TopicLwt == GetTopic(<<"status">>)

\* no connect was called yet
NoWill == Sent("none", <<>>, "none", FALSE)

\* WillMessage that is not retained
WillMessage_NotRetained == Sent("will", TopicLwt, "offline", FALSE)

\* self._will_message of LumiMqtt.__init__
WillMessage == Sent("will", TopicLwt, "offline", TRUE)

\* the message of the first publish after connect
OnlineMessage == Sent("publish", TopicLwt, "online", TRUE)

\* LumiMqtt.lights and LumiMqtt.buttons in the order of registration
LightList == <<"light", "light2">>

ButtonList == <<"btn0">>

\* Button.PROVIDE_EVENTS: the names of ButtonAction as dir() orders them
ProvideEvents ==
    <<"double", "double_hold", "hold", "many", "many_hold", "quadruple",
      "quadruple_hold", "release", "single", "triple", "triple_hold">>

\* the sequences of qq put one after the other
RECURSIVE Flatten(_)
Flatten(qq) ==
    IF qq = <<>> THEN <<>> ELSE Head(qq) \o Flatten(Tail(qq))

\* subscribe(*[(t, QOS_1) for t in self.subscribed_topics])
SubscribeOf(l) == <<Sent("subscribe", GetTopic(TopicSetOf(l)), "", FALSE)>>

\* send_config: the discovery message of a sensor
SensorConfig(s) ==
    <<Sent("publish",
           <<"homeassistant",
             IF IsBinary(s) THEN "binary_sensor" ELSE "sensor",
             s.name, "config">>,
           "config", TRUE)>>

\* send_config: the discovery messages of a button, its own and one for
\* each event it provides
ButtonEventConfig(e) ==
    <<Sent("publish", <<"homeassistant", "device_automation", e, "config">>,
           "config", TRUE)>>

ButtonConfig(b) ==
    <<Sent("publish", <<"homeassistant", "sensor", b, "config">>,
           "config", TRUE)>>
    \o Flatten([i \in 1 .. Len(ProvideEvents) |->
                   ButtonEventConfig(ProvideEvents[i])])

\* send_config: the discovery message of a light
LightConfig(l) ==
    <<Sent("publish", <<"homeassistant", "light", l, "config">>,
           "config", TRUE)>>

\* send_config: what it publishes, in its order
SendConfig ==
    Flatten([i \in 1 .. Len(Sensors) |-> SensorConfig(Sensors[i])])
    \o Flatten([i \in 1 .. Len(ButtonList) |-> ButtonConfig(ButtonList[i])])
    \o Flatten([i \in 1 .. Len(LightList) |-> LightConfig(LightList[i])])

\* the task has not run yet
KInit ==
    /\ cpc = "connect"
    /\ timer = 0
    /\ nattempts = 0
    /\ cause = "none"
    /\ since = 0
    /\ wire = <<>>
    /\ will = NoWill

\* the same clauses with ServerDiedError left out of the tuple of the
\* clause that sleeps
Except_ServerDiedFatal(c) ==
    IF c = "CancelledError" THEN "cancelled"
    ELSE IF c = "AccessRefusedError" THEN "raised"
    ELSE IF c \in Recoverable \ {"ServerDiedError"} THEN "backoff"
    ELSE "returned"

\* the same clauses with the clause of Exception sleeping and retrying
Except_RetryUnexpected(c) ==
    IF c = "CancelledError" THEN "cancelled"
    ELSE IF c = "AccessRefusedError" THEN "raised"
    ELSE IF c \in Recoverable THEN "backoff"
    ELSE IF c = "ConnectionCloseForcedError" THEN "returned"
    ELSE "backoff"

\* the except clauses in their order: where exception c takes the task
Except(c) ==
    IF c = "CancelledError" THEN "cancelled"
    ELSE IF c = "AccessRefusedError" THEN "raised"
    ELSE IF c \in Recoverable THEN "backoff"
    ELSE IF c = "ConnectionCloseForcedError" THEN "returned"
    ELSE "returned"

\* client.connect(..., will_message=self._will_message): the last will a
\* call of connect that is over has registered
Registered == IF cpc = "connect" THEN WillMessage ELSE will

\* an await of the try block raises c, or the sleep of the except clause
\* is cancelled; a clause that sleeps calls
\* aio.sleep(self._reconnection_interval)
Catch(c) ==
    /\ cpc \in Awaits \/ (cpc = "backoff" /\ c = "CancelledError")
    /\ cause' = c
    /\ \E to \in {Except(c)} :
          /\ cpc' = to
          /\ IF to = "backoff"
             THEN timer' = ReconnectionInterval /\ since' = now
             ELSE UNCHANGED <<timer, since>>
    /\ will' = Registered
    /\ UNCHANGED <<nattempts, wire>>

KRaise(c) ==
    /\ c \in Recoverable => nattempts < MaxAttempts
    /\ Catch(c)
    /\ connected' = IF c \in {"CancelledError", "Exception"}
                    THEN connected ELSE FALSE
    /\ UNCHANGED ndrops
    /\ UNCHANGED <<bvars, lvars, mvars, svars, tvars>>

\* client.connect returns the connect result: a new session
KConnected ==
    /\ cpc = "connect"
    /\ connected' = TRUE
    /\ cpc' = "online"
    /\ wire' = <<>>
    /\ will' = Registered
    /\ UNCHANGED <<ndrops, timer, nattempts, cause, since>>
    /\ UNCHANGED <<bvars, lvars, mvars, svars, tvars>>

\* KOnline that publishes nothing
KOnline_Silent ==
    /\ cpc = "online"
    /\ cpc' = "subscribe"
    /\ UNCHANGED <<cvars, timer, nattempts, cause, since, wire, will>>
    /\ UNCHANGED <<bvars, lvars, mvars, svars, tvars>>

\* the publish of online is acknowledged
KOnline ==
    /\ cpc = "online"
    /\ cpc' = "subscribe"
    /\ wire' = Append(wire, OnlineMessage)
    /\ UNCHANGED <<cvars, timer, nattempts, cause, since, will>>
    /\ UNCHANGED <<bvars, lvars, mvars, svars, tvars>>

\* KSubscribed that subscribes to the set topic of the first light only
KSubscribed_FirstOnly ==
    /\ cpc = "subscribe"
    /\ cpc' = "config"
    /\ wire' = wire \o SubscribeOf(LightList[1])
    /\ UNCHANGED <<cvars, timer, nattempts, cause, since, will>>
    /\ UNCHANGED <<bvars, lvars, mvars, svars, tvars>>

\* subscribe returns
KSubscribed ==
    /\ cpc = "subscribe"
    /\ cpc' = "config"
    /\ wire' = wire \o Flatten([i \in 1 .. Len(LightList) |->
                                    SubscribeOf(LightList[i])])
    /\ UNCHANGED <<cvars, timer, nattempts, cause, since, will>>
    /\ UNCHANGED <<bvars, lvars, mvars, svars, tvars>>

\* send_config returns, each of its publishes acknowledged
KConfigSent ==
    /\ cpc = "config"
    /\ cpc' = "session"
    /\ wire' = wire \o SendConfig
    /\ UNCHANGED <<cvars, timer, nattempts, cause, since, will>>
    /\ UNCHANGED <<bvars, lvars, mvars, svars, tvars>>

\* disconnect_reason completes without an exception, as it does after
\* client.disconnect(), which only close() calls: the else clause returns
KDisconnected ==
    /\ cpc = "session"
    /\ cause' = "Disconnected"
    /\ cpc' = "returned"
    /\ connected' = FALSE
    /\ UNCHANGED <<ndrops, timer, nattempts, since, wire, will>>
    /\ UNCHANGED <<bvars, lvars, mvars, svars, tvars>>

\* a second of the sleep passes
KTick ==
    /\ cpc = "backoff"
    /\ timer > 0
    /\ timer' = timer - 1
    /\ now' = now + 1
    /\ UNCHANGED <<cpc, nattempts, cause, since, wire, will>>
    /\ UNCHANGED <<debounce, ppc, idx, got, sent, nticks>>
    /\ UNCHANGED <<bvars, lvars, cvars, mvars, tvars>>

\* the sleep returns: the end of the except clause, while True goes on
\* with the next call of connect
KWake ==
    /\ cpc = "backoff"
    /\ timer = 0
    /\ cpc' = "connect"
    /\ nattempts' = nattempts + 1
    /\ cause' = "none"
    /\ UNCHANGED <<timer, since, wire, will>>
    /\ UNCHANGED <<bvars, lvars, cvars, mvars, svars, tvars>>

KNext ==
    \/ \E c \in Raised : KRaise(c)
    \/ KConnected
    \/ KOnline
    \/ KSubscribed
    \/ KConfigSent
    \/ KDisconnected
    \/ KTick
    \/ KWake

\* =============================================================== bridge

\* self._tasks, in the order start makes them
TaskList == <<"connect", "messages", "periodic", "buttons">>

Tasks == {TaskList[i] : i \in 1 .. Len(TaskList)}

\* how handle_queue can be over: NotImplementedError raised, the exception
\* of a publish of _handle_click raised, cancelled
QueueOver == {"raised", "closed", "cancelled"}

\* task.done()
TaskDone(t) ==
    IF t = "connect" THEN cpc \in Over
    ELSE IF t = "messages" THEN mpc = "cancelled"
    ELSE IF t = "periodic" THEN ppc \in {"raised", "cancelled"}
    ELSE hpc \in Over

\* t.result() and await t of a task that is done raise its exception
TaskRaised(t) ==
    IF t = "connect" THEN cpc = "raised"
    ELSE IF t = "messages" THEN FALSE
    ELSE IF t = "periodic" THEN ppc = "raised"
    ELSE hpc = "raised"

\* LumiMqtt.start has made the four tasks and waits for the first to end;
\* _handle_buttons has made the task of Button.handle, which has gathered
\* handle_events and handle_queue
TInit ==
    /\ opc = "wait"
    /\ hpc = "wait"
    /\ gpc = "running"
    /\ epc = "running"
    /\ pending = {}
    /\ finished = {}
    /\ click = [call |-> 0, msgs |-> <<>>]

\* handle_events of the button, while its task runs; MaxPresses limits the
\* events of a run of the bridge
BridgeEvents(e) ==
    /\ epc = "running"
    /\ nput < MaxPresses
    /\ HandleEvents(e)

\* time passes while the button's handle_queue runs
BridgeTick ==
    /\ bpc \notin QueueOver
    /\ opc = "wait"
    /\ Tick

\* aio_mqtt.PublishableMessage(topic_name, payload): the payload is the
\* action itself or json.dumps({'action': action})
Publishable(topic, json, a) == [topic |-> topic, json |-> json, action |-> a]

\* _handle_click: the two messages of its aio.gather
Gathered(b, a) ==
    {Publishable(GetTopic(<<b>>), TRUE, a),
     Publishable(GetTopic(<<b, "action">>), FALSE, a)}

\* _handle_click: the message of the publish after the gather
EmptyAction(b) == Publishable(GetTopic(<<b>>), TRUE, "")

\* the publishes acknowledged so far in the call of _handle_click that
\* handle_queue awaits
Acked == IF click.call = nget THEN click.msgs ELSE <<>>

\* ClickPublished with the three publishes in one gather
ClickPublished_OneGather(m) ==
    /\ bpc \in {"cb_action", "cb_release"}
    /\ connected
    /\ Len(Acked) < 3
    /\ m \in (Gathered(ButtonList[1], action) \cup {EmptyAction(ButtonList[1])})
             \ {Acked[i] : i \in 1 .. Len(Acked)}
    /\ click' = [call |-> nget, msgs |-> Append(Acked, m)]
    /\ UNCHANGED <<opc, hpc, gpc, epc, pending, finished>>
    /\ UNCHANGED <<bvars, lvars, cvars, mvars, svars, kvars>>

\* _handle_click: a publish is acknowledged; the two of the gather in
\* either order, then the one that follows the gather
ClickPublished(m) ==
    /\ bpc \in {"cb_action", "cb_release"}
    /\ connected
    /\ Len(Acked) < 3
    /\ m \in IF Len(Acked) < 2
             THEN Gathered(ButtonList[1], action)
                     \ {Acked[i] : i \in 1 .. Len(Acked)}
             ELSE {EmptyAction(ButtonList[1])}
    /\ click' = [call |-> nget, msgs |-> Append(Acked, m)]
    /\ UNCHANGED <<opc, hpc, gpc, epc, pending, finished>>
    /\ UNCHANGED <<bvars, lvars, cvars, mvars, svars, kvars>>

\* the messages _handle_click can publish
ClickMessages ==
    UNION {Gathered(ButtonList[1], ButtonAction[k]) : k \in DOMAIN ButtonAction}
    \cup {EmptyAction(ButtonList[1])}

\* _handle_click: its last publish is acknowledged and on_click returns
ClickReturn ==
    /\ Len(Acked) = 3
    /\ OnClickReturn \/ OnReleaseReturn

\* the rest of the button untouched by a step that ends handle_queue
QueueFrame ==
    UNCHANGED <<is_pressed, is_sent, clicks_done, event_queue, action,
                waited, gap, nput, nget, scen, keystate, click>>

\* ClickRaised with the sibling of handle_queue cancelled as well
ClickRaised_CancelSibling ==
    /\ bpc \in {"cb_action", "cb_release"}
    /\ ~connected
    /\ bpc' = "closed"
    /\ gpc' = "raised"
    /\ epc' = "cancelled"
    /\ QueueFrame
    /\ UNCHANGED <<opc, hpc, pending, finished>>
    /\ UNCHANGED <<lvars, cvars, mvars, svars, kvars>>

\* _handle_click while the client is not connected: publish raises
\* ConnectionClosedError, which no except clause of _handle_click or
\* handle_queue takes: handle_queue is over, and aio.gather of Button.handle
\* hands the exception on at once without cancelling handle_events
ClickRaised ==
    /\ bpc \in {"cb_action", "cb_release"}
    /\ ~connected
    /\ bpc' = "closed"
    /\ gpc' = "raised"
    /\ QueueFrame
    /\ UNCHANGED <<opc, hpc, epc, pending, finished>>
    /\ UNCHANGED <<lvars, cvars, mvars, svars, kvars>>

\* _handle_buttons: aio.wait returned, the task of Button.handle is
\* finished, none is unfinished, and t.result() raises its exception
ButtonsWake ==
    /\ hpc = "wait"
    /\ gpc \in Over
    /\ hpc' = IF gpc = "raised" THEN "raised" ELSE "returned"
    /\ UNCHANGED <<opc, gpc, epc, pending, finished, click>>
    /\ UNCHANGED <<bvars, lvars, cvars, mvars, svars, kvars>>

\* start: aio.wait(return_when=FIRST_COMPLETED) returned
StartWake ==
    /\ opc = "wait"
    /\ \E t \in Tasks : TaskDone(t)
    /\ finished' = {t \in Tasks : TaskDone(t)}
    /\ pending' = {t \in Tasks : ~TaskDone(t)}
    /\ opc' = "cancel"
    /\ UNCHANGED <<hpc, gpc, epc, click>>
    /\ UNCHANGED <<bvars, lvars, cvars, mvars, svars, kvars>>

\* await t, after t.cancel(), raises an exception that is not
\* CancelledError: t is done with one, or t is _handle_buttons and the
\* task of Button.handle it awaits in its except clause is done with one
AwaitRaises(t) ==
    IF TaskDone(t) THEN TaskRaised(t)
    ELSE t = "buttons" /\ gpc = "raised"

\* t.cancel() and await t: a task that is done stays as it is; a task that
\* runs gets CancelledError at its await.  _handle_buttons then cancels and
\* awaits the task of Button.handle, whose gather cancels handle_events and
\* handle_queue.
Cancelled(t) ==
    /\ IF t = "connect" /\ ~TaskDone(t)
       THEN Catch("CancelledError")
       ELSE UNCHANGED kvars
    /\ mpc' = IF t = "messages" /\ ~TaskDone(t) THEN "cancelled" ELSE mpc
    /\ ppc' = IF t = "periodic" /\ ~TaskDone(t) THEN "cancelled" ELSE ppc
    /\ IF t = "buttons" /\ ~TaskDone(t)
       THEN IF gpc = "running"
            THEN /\ hpc' = "cancelled"
                 /\ gpc' = "cancelled"
                 /\ epc' = "cancelled"
                 /\ bpc' = "cancelled"
            ELSE /\ hpc' = "raised"
                 /\ UNCHANGED <<gpc, epc, bpc>>
       ELSE UNCHANGED <<hpc, gpc, epc, bpc>>
    /\ QueueFrame
    /\ UNCHANGED <<inbox, nrecv, message, light, parked, echo, logged>>
    /\ UNCHANGED <<now, debounce, idx, got, sent, nticks>>
    /\ UNCHANGED <<lvars, cvars>>

\* StartCancel whose await takes every exception of the task
StartCancel_CatchAll(t) ==
    /\ opc = "cancel"
    /\ t \in pending
    /\ Cancelled(t)
    /\ pending' = pending \ {t}
    /\ UNCHANGED <<opc, finished>>

\* start, the loop over unfinished: t.cancel(), await t with CancelledError
\* passed over; another exception leaves start
StartCancel(t) ==
    /\ opc = "cancel"
    /\ t \in pending
    /\ Cancelled(t)
    /\ IF AwaitRaises(t)
       THEN opc' = "raised" /\ UNCHANGED pending
       ELSE pending' = pending \ {t} /\ UNCHANGED opc
    /\ UNCHANGED finished

\* start, the loop over finished: t.result()
StartResult ==
    /\ opc = "cancel"
    /\ pending = {}
    /\ opc' = IF \E t \in finished : TaskRaised(t) THEN "raised"
              ELSE "returned"
    /\ UNCHANGED <<hpc, gpc, epc, pending, finished, click>>
    /\ UNCHANGED <<bvars, lvars, cvars, mvars, svars, kvars>>

\* start is over and the finally clause of amain calls close
CloseCall ==
    /\ opc \in {"returned", "raised"}
    /\ opc' = "close"
    /\ pending' = {t \in Tasks : ~TaskDone(t)}
    /\ UNCHANGED <<hpc, gpc, epc, finished, click>>
    /\ UNCHANGED <<bvars, lvars, cvars, mvars, svars, kvars>>

\* the task of self._tasks that close cancels next
Position(t) == CHOOSE i \in 1 .. Len(TaskList) : TaskList[i] = t

NextTask == CHOOSE t \in pending : \A u \in pending : Position(t) <= Position(u)

\* close, the loop over self._tasks: a task that is not done is cancelled
\* and awaited with CancelledError passed over
CloseCancel ==
    /\ opc = "close"
    /\ pending # {}
    /\ \E t \in {NextTask} :
          /\ Cancelled(t)
          /\ IF AwaitRaises(t)
             THEN opc' = "raised_in_close" /\ UNCHANGED pending
             ELSE pending' = pending \ {t} /\ UNCHANGED opc
    /\ UNCHANGED finished

\* close: the loop is over; the client, when connected, is disconnected
CloseReturn ==
    /\ opc = "close"
    /\ pending = {}
    /\ opc' = "closed"
    /\ connected' = FALSE
    /\ UNCHANGED ndrops
    /\ UNCHANGED <<hpc, gpc, epc, pending, finished, click>>
    /\ UNCHANGED <<bvars, lvars, mvars, svars, kvars>>

\* handle_events of the button, while its task runs
PressEvents(e) == epc = "running" /\ HandleEvents(e)

\* the button of the bridge and its on_click, LumiMqtt._handle_click, with
\* the client connected or not
GNext ==
    \/ ClientDown
    \/ ClientUp
    \/ \E e \in KeyStates : PressEvents(e)
    \/ TimedGet
    \/ Timeout
    \/ PlainGet
    \/ BridgeTick
    \/ \E m \in ClickMessages : ClickPublished(m)
    \/ ClickReturn
    \/ ClickRaised

\* the bridge: the connection manager and the button at work, the tasks of
\* the messages and of the sensors at rest, start and close; a task is
\* cancelled by start and by close only
TNext ==
    \/ \E c \in Raised \ {"CancelledError"} : KRaise(c)
    \/ KConnected
    \/ KOnline
    \/ KSubscribed
    \/ KConfigSent
    \/ KDisconnected
    \/ KTick
    \/ KWake
    \/ \E e \in KeyStates : BridgeEvents(e)
    \/ TimedGet
    \/ Timeout
    \/ PlainGet
    \/ BridgeTick
    \/ \E m \in ClickMessages : ClickPublished(m)
    \/ ClickReturn
    \/ ClickRaised
    \/ ButtonsWake
    \/ StartWake
    \/ \E t \in Tasks : StartCancel(t)
    \/ StartResult
    \/ CloseCall
    \/ CloseCancel
    \/ CloseReturn

\* ================================================================ specs

\* the button alone, the light as constructed and left alone
InitButton ==
    /\ BInit
    /\ LInit
    /\ CInit
    /\ MInit
    /\ PInit
    /\ KInit
    /\ TInit
    /\ pwm_max = 255
    /\ lstate.state = "OFF"

\* the light alone, the button as constructed and left alone
InitLight ==
    /\ BInit
    /\ LInit
    /\ CInit
    /\ MInit
    /\ PInit
    /\ KInit
    /\ TInit

SpecButton == InitButton /\ [][BNext]_vars

\* the same with the scheduling of the event loop: a get whose event is
\* there returns, a timeout that is due fires, an on_click that publishes to
\* a connected client returns, and time passes
SpecButtonFair ==
    /\ SpecButton
    /\ WF_vars(TimedGet)
    /\ WF_vars(Timeout)
    /\ WF_vars(OnClickReturn)
    /\ WF_vars(PlainGet)
    /\ WF_vars(OnReleaseReturn)
    /\ WF_vars(Tick)

SpecLight == InitLight /\ [][LNext]_vars

\* message intake with two lights, both off, and the client's connection
\* coming and going
InitIntake ==
    /\ BInit
    /\ LInit
    /\ CInit
    /\ MInit
    /\ PInit
    /\ KInit
    /\ TInit
    /\ pwm_max = 255
    /\ lstate.state = "OFF"

SpecIntake == InitIntake /\ [][MNext]_vars

\* the periodic publish with the client's connection coming and going
InitSensors ==
    /\ BInit
    /\ LInit
    /\ CInit
    /\ MInit
    /\ PInit
    /\ KInit
    /\ TInit
    /\ pwm_max = 255
    /\ lstate.state = "OFF"

SpecSensors == InitSensors /\ [][PNext]_vars

\* the connection manager, the broker failing and answering at will
InitConnect ==
    /\ BInit
    /\ LInit
    /\ CInit
    /\ MInit
    /\ PInit
    /\ KInit
    /\ TInit
    /\ pwm_max = 255
    /\ lstate.state = "OFF"

SpecConnect == InitConnect /\ [][KNext]_vars

\* The event loop's clock advances and it resumes the task when its sleep
\* is over.
SpecConnectFair ==
    /\ InitConnect
    /\ [][KNext]_vars
    /\ WF_vars(KTick)
    /\ WF_vars(KWake)

\* the whole bridge from start to the end of close
InitBridge ==
    /\ BInit
    /\ LInit
    /\ CInit
    /\ MInit
    /\ PInit
    /\ KInit
    /\ TInit
    /\ pwm_max = 255
    /\ lstate.state = "OFF"

SpecBridge == InitBridge /\ [][TNext]_vars

\* the button and _handle_click at work while the client comes and goes
SpecClick == InitBridge /\ [][GNext]_vars

\* The event loop runs the task _handle_messages whenever it is ready, and
\* _connect_forever connects again after every recoverable failure.
SpecIntakeFair ==
    /\ InitIntake
    /\ [][MNext]_vars
    /\ WF_vars(Handler)
    /\ WF_vars(ClientUp)

\* ====================================================== button claims

\* C1: while on_click is awaited after a timeout, the gesture it was given
\* is the one the table assigns to (is_pressed, clicks_done): released with
\* 1..4 clicks single, double, triple, quadruple; pressed with 0..3 clicks
\* hold, double_hold, triple_hold, quadruple_hold; released with more than 4
\* clicks many; pressed with more than 3 clicks many_hold.
C1_GestureTable ==
    bpc = "cb_action" =>
        /\ (~is_pressed /\ clicks_done = 1) => action = "single"
        /\ (~is_pressed /\ clicks_done = 2) => action = "double"
        /\ (~is_pressed /\ clicks_done = 3) => action = "triple"
        /\ (~is_pressed /\ clicks_done = 4) => action = "quadruple"
        /\ (is_pressed /\ clicks_done = 0) => action = "hold"
        /\ (is_pressed /\ clicks_done = 1) => action = "double_hold"
        /\ (is_pressed /\ clicks_done = 2) => action = "triple_hold"
        /\ (is_pressed /\ clicks_done = 3) => action = "quadruple_hold"
        /\ (~is_pressed /\ clicks_done > 4) => action = "many"
        /\ (is_pressed /\ clicks_done > 3) => action = "many_hold"

C1_Witness ==
    bpc = "cb_action" /\ is_pressed /\ clicks_done > 3 /\ action = "many_hold"

QuickGesture(n) ==
    CASE n = 1 -> "single"
      [] n = 2 -> "double"
      [] n = 3 -> "triple"
      [] n = 4 -> "quadruple"
      [] OTHER -> "many"

\* C2: from an idle button, after n >= 1 key-down/key-up pairs each event of
\* which came less than THRESHOLD after the one before, nothing is emitted
\* before THRESHOLD of silence has passed, and once it has passed exactly one
\* gesture has been emitted: single, double, triple, quadruple for n = 1..4,
\* many for n >= 5; no release is emitted.
C2_QuickClicks ==
    (scen.phase = "burst" /\ scen.events >= 2 /\ scen.events % 2 = 0) =>
        LET g == QuickGesture(scen.events \div 2)
        IN /\ scen.out \in {<<>>, <<g>>}
           /\ gap < THRESHOLD => scen.out = <<>>
           /\ gap > THRESHOLD => scen.out = <<g>>

C2_Witness ==
    /\ scen.phase = "burst" /\ scen.events = 10
    /\ gap > THRESHOLD /\ scen.out = <<"many">>

\* C3: from an idle button, a key-down followed by THRESHOLD of silence
\* emits exactly one hold; the key-up that follows emits exactly one release,
\* is not counted as a click, and leaves the resolver in the untimed wait, so
\* that no click gesture can follow it.
C3_HoldRelease ==
    /\ (scen.phase = "burst" /\ scen.events = 1) =>
           /\ scen.out \in {<<>>, <<"hold">>}
           /\ gap < THRESHOLD => scen.out = <<>>
           /\ gap > THRESHOLD => scen.out = <<"hold">>
    /\ scen.phase = "held" =>
           /\ scen.out \in {<<"hold">>, <<"hold", "release">>}
           /\ clicks_done = 0
           /\ bpc \in {"cb_action", "get", "cb_release"}
           /\ nget = nput =>
                  /\ scen.out = <<"hold", "release">>
                  /\ ~is_pressed
                  /\ bpc \in {"cb_release", "get"}

C3_Witness ==
    /\ scen.phase = "held" /\ scen.out = <<"hold", "release">>
    /\ bpc = "get" /\ nget = nput

\* C4 as stated: a key-up consumed while is_pressed and not is_sent makes the
\* resolver emit release.
C4_Original ==
    [][(/\ nget' = nget + 1
        /\ Head(event_queue).kind = "key_up"
        /\ is_pressed /\ ~is_sent)
       => (bpc' = "cb_release" /\ action' = "release")]_vars

\* C4, amended: a key-up consumed while is_pressed and is_sent (a gesture was
\* already sent for that press) makes the resolver emit release at once, and
\* is_sent is cleared when that callback returns; a key-up consumed while
\* is_pressed and not is_sent emits nothing and is counted as a click.
C4_ReleaseWhenSent ==
    [][/\ (/\ nget' = nget + 1
           /\ Head(event_queue).kind = "key_up"
           /\ is_pressed /\ is_sent)
          => (/\ bpc' = "cb_release" /\ action' = "release"
              /\ scen.phase # "none" => scen'.out = Append(scen.out, "release"))
       /\ (bpc = "cb_release" /\ bpc' # "cb_release") => ~is_sent'
       /\ (/\ nget' = nget + 1
           /\ Head(event_queue).kind = "key_up"
           /\ is_pressed /\ ~is_sent)
          => (/\ clicks_done' = clicks_done + 1
              /\ bpc' = "wait" /\ action' = action)]_vars

C4_Witness == bpc = "cb_release" /\ is_sent /\ action = "release"

\* C5: handle_queue never raises NotImplementedError('Unknown button state').
C5_NoUnknownState == bpc # "raised"

C5_Witness ==
    bpc = "cb_action" /\ ~is_pressed /\ clicks_done > 4 /\ action = "many"

\* C6: the events put and not yet got are exactly the arrivals nget+1 .. nput,
\* in arrival order: every get takes the oldest event not yet taken, none is
\* lost, repeated or overtaken, whatever the resolver is doing when it arrives.
C6_QueueFifo ==
    /\ Len(event_queue) = nput - nget
    /\ \A i \in 1..Len(event_queue) : event_queue[i].seq = nget + i

C6_Witness ==
    /\ bpc = "cb_action" /\ Len(event_queue) >= 2 /\ nget >= 2

\* ======================================================= light claims

\* the request of the current call read against the state before the call
TargetState == IF value.state # Absent THEN value.state ELSE loc.before.state

TargetBrightness ==
    IF value.brightness # AbsentInt THEN value.brightness
    ELSE loc.before.brightness

RequestedColor ==
    IF value.color # AbsentColor THEN value.color ELSE loc.before.color

TargetColor ==
    IF loc.before.state = "OFF" /\ TargetState = "ON" /\ RequestedColor = Black
    THEN White ELSE RequestedColor

EffectiveStart ==
    IF loc.before.state = "OFF" THEN 0 ELSE loc.before.brightness

EffectiveEnd == IF TargetState = "OFF" THEN 0 ELSE TargetBrightness

Channels == {"r", "g", "b"}

Zeros == [r |-> 0, g |-> 0, b |-> 0]

\* the channel value of color component c at whole brightness b, state ON
ChannelOn(c, b) ==
    LET x == (c * pwm_max * b) \div 65025
    IN IF x <= pwm_max THEN x ELSE 0

C8_PwmRange ==
    \A c \in Channels :
        /\ led[c] \in 0..pwm_max
        /\ nframes >= 1 => frame.pwm[c] \in 0..pwm_max

C8_Witness ==
    /\ nframes >= 1
    /\ frame.state = "ON" /\ frame.color = White
    /\ frame.brightness = Lvl(300)
    /\ frame.pwm = Zeros

\* C9: in an interpolated transition the brightness of every frame written
\* lies between the effective start and the end brightness and is not
\* further from the end than that of the frame before it: it does not
\* decrease on a fade-in and does not increase on a fade-out.
C9_Monotonic ==
    (loc.path = "fade" /\ nframes >= 1) =>
        IF EffectiveStart < EffectiveEnd
        THEN /\ LevelLE(Lvl(EffectiveStart), frame.brightness)
             /\ LevelLE(frame.brightness, Lvl(EffectiveEnd))
             /\ nframes >= 2 => LevelLE(pframe.brightness, frame.brightness)
        ELSE /\ LevelLE(frame.brightness, Lvl(EffectiveStart))
             /\ LevelLE(Lvl(EffectiveEnd), frame.brightness)
             /\ nframes >= 2 => LevelLE(frame.brightness, pframe.brightness)

C9_Witness ==
    /\ lpc = "sleep" /\ loc.path = "fade" /\ nframes = 6
    /\ EffectiveStart > EffectiveEnd
    /\ frame.brightness # pframe.brightness

\* C10: when Light.set has returned for a request whose target state is OFF,
\* the last value written to each of the r, g and b channels is 0.
C10_OffWritesZero ==
    (lpc = "done" /\ TargetState = "OFF") =>
        /\ nframes >= 1
        /\ frame.pwm = Zeros
        /\ led = Zeros

C10_Witness ==
    /\ lpc = "done" /\ value.state = "OFF"
    /\ value.color = [r |-> 10, g |-> 20, b |-> 30] /\ value.brightness = 255
    /\ loc.before.state = "ON" /\ loc.before.brightness = 255
    /\ led = Zeros

\* ====================================================== intake claims

\* the state a set message with state ON, brightness 100 and color
\* (10, 20, 30) asks for
OnState ==
    [state |-> "ON", brightness |-> 100, color |-> [r |-> 10, g |-> 20, b |-> 30]]

OnMessage(m) ==
    /\ m.topic \in SubscribedTopics
    /\ m.payload = [json |-> "object", value |-> ReqOn]

\* C11: a state publish made for a set message with state ON, brightness 100
\* and color (10, 20, 30) goes to the state topic of the light the message
\* was for and carries exactly state ON, brightness 100 and color
\* (10, 20, 30); it is made when Light.set has returned, with the channels
\* holding the last frame of the call, the frame of that state, and writes
\* nothing itself.  Once such a message is taken, that publish is eventually
\* made, unless the publish raises an exception other than connection-closed.
C11_EchoAfterSet ==
    /\ [][(echo' # echo /\ OnMessage(message)) =>
             /\ echo'.id = message.id
             /\ echo'.topic = GetTopic(<<FindLight(message.topic)>>)
             /\ echo'.payload = OnState
             /\ lpc = "done"
             /\ nframes >= 1
             /\ frame = Write("ON", OnState.color, Lvl(100))
             /\ led = frame.pwm
             /\ led' = led
             /\ lstate' = OnState]_vars
    /\ \A i \in 1 .. MaxMessages :
          (message.id = i /\ OnMessage(message) /\ mpc = "call")
             ~> (\/ echo.id = i
                 \/ logged = [id |-> i, what |-> "Unhandled exception"])

\* the publish for such a message has been made, after a retry
C11_Witness ==
    /\ OnMessage(message)
    /\ echo.id = message.id
    /\ echo.payload = OnState
    /\ ndrops > 0
    /\ mpc = "next"

\* C12: set commands are handled one at a time and in arrival order.  A
\* message is taken only when no Light.set call is in progress, and it is
\* the one that arrived next after the message before it; the state and the
\* channels of a light change only in the handling of the current message,
\* which is one for that light.  So the Light.set of a command reads its
\* baseline and writes its frames only after the Light.set of every earlier
\* command has written its last frame and set light.state, or raised.
C12_OneAtATime ==
    [][/\ (message' # message) =>
             /\ mpc = "next"
             /\ lpc = "idle"
             /\ message'.id = message.id + 1
       /\ \A l \in Lights :
             (StateOf(l)' # StateOf(l) \/ LedOf(l)' # LedOf(l)) =>
                /\ mpc \in {"call", "set"}
                /\ message.topic = GetTopic(TopicSetOf(l))
                /\ message' = message
       /\ (lpc = "idle" /\ lpc' # "idle") => mpc = "call"
       /\ (loc = NoLoc /\ loc' # NoLoc) =>
             loc'.before = StateOf(FindLight(message.topic))]_vars

\* the second of two commands for the same light is in its transition, after
\* the first one was echoed
C12_Witness ==
    /\ message.id = 2
    /\ message.topic = GetTopic(TopicSetOf(light))
    /\ echo.id = 1
    /\ echo.topic = GetTopic(<<light>>)
    /\ mpc = "set"
    /\ lpc = "sleep"
    /\ nframes >= 2

\* a message for a registered light other than the one bound is the next to
\* be yielded
OtherLightWaiting ==
    /\ inbox # <<>>
    /\ Head(inbox).topic \in SubscribedTopics
    /\ Head(inbox).topic # GetTopic(TopicSetOf(light))

\* C13: while the transition of one light is in progress (its Light.set is
\* in aio.sleep between two frames), a message for another light that is
\* waiting to be yielded can be taken by the intake loop.
C13_IntakeNotBlocked ==
    (lpc = "sleep" /\ OtherLightWaiting) => ENABLED MsgTake

\* C14: when the message yielded has a topic that is no registered set
\* topic, nothing is written to a light, no light.state changes, nothing is
\* published, and the loop is back at delivered_messages for the next
\* message.
C14_UnmatchedDropped ==
    [][(message' # message /\ message'.topic \notin SubscribedTopics) =>
          /\ mpc' = "next"
          /\ echo' = echo
          /\ \A l \in Lights : StateOf(l)' = StateOf(l) /\ LedOf(l)' = LedOf(l)]_vars

\* a message on the set topic of a light whose payload is no JSON
Malformed(m) ==
    /\ m.topic \in SubscribedTopics
    /\ m.payload.json = "malformed"

\* C15: from the step that takes a message on a light's set topic whose
\* payload is no JSON, and for as long as it is the message last taken, no
\* Light.set call is made for it, nothing is written to a light, no
\* light.state changes and nothing is published; the message is not put
\* back, and the loop awaits the next message.
C15_MalformedDropped ==
    [][Malformed(message') =>
          /\ mpc' = "next"
          /\ lpc' = "idle"
          /\ echo' = echo
          /\ \A l \in Lights : StateOf(l)' = StateOf(l) /\ LedOf(l)' = LedOf(l)
          /\ \A i \in 1 .. Len(inbox') : inbox'[i].id > message'.id
          /\ logged' = [id |-> message'.id, what |-> "ValueError"]]_vars

\* a malformed message was dropped and the message after it is being handled
C15_Witness ==
    /\ logged.what = "ValueError"
    /\ message.id = logged.id + 1
    /\ mpc = "set"
    /\ lpc = "sleep"

\* ====================================================== sensor claims

\* the step of the for loop for the sensor at idx, its get_value returning
ReadStep == ppc = "for" /\ got'.ok

\* C16: when the value of a numeric sensor is read in a tick, its publish is
\* called if and only if the sensor has no debounce record, or the value
\* differs from the recorded one by SensorThreshold or more, or
\* SensorDebouncePeriod or more has passed since the record's last_sent.
\* With threshold 50 and period 60 a value 10 off the recorded one is not
\* published 10 s after last_sent and is published 61 s after it.
C16_NumericRule ==
    [][(ReadStep /\ ~IsBinary(Sensors[idx])) =>
          LET d == debounce[Sensors[idx].name]
          IN (ppc' = "publish") <=>
                \/ ~d.set
                \/ Abs(got'.num - d.num) >= SensorThreshold
                \/ now - d.last_sent >= SensorDebouncePeriod]_vars

\* C17: when the value of a binary sensor is read in a tick, its publish is
\* called if and only if the value differs from the one last published for
\* that sensor, a sensor never published counting as differing.
C17_BinaryRule ==
    [][(ReadStep /\ IsBinary(Sensors[idx])) =>
          LET p == sent[Sensors[idx].name]
          IN (ppc' = "publish") <=> (~p.set \/ got'.bin # p.bin)]_vars

\* C18: except while the publish of its value is awaited, the debounce
\* record of a sensor is the value and time of the publish last
\* acknowledged for it: a publish that fails leaves the record as it was.
C18_RecordIsPublished ==
    \A n \in SensorNames :
       (ppc = "publish" /\ Sensors[idx].name = n) \/ debounce[n] = sent[n]

\* C19: when get_value of the sensor at idx raises, the for loop goes on
\* with the next sensor in the same tick, or after the last sensor with the
\* sleep before the next tick.
C19_ReadFailureSkipped ==
    [][(ppc = "for" /\ ~got'.ok) => NextSensor(idx)]_vars

\* ================================================== connection claims

\* the step in which an await of the try block raises
Fails == cpc \in Awaits /\ cause' \in Raised

\* C20: when client.connect or an await of the connected session raises
\* ConnectFailedError, ConnectionLostError or ServerDiedError, the task
\* sleeps and calls connect again exactly ReconnectionInterval seconds
\* after the failure, unless it is cancelled in the sleep; this holds
\* however many times it has retried; and the task is over only by an
\* exception that is none of the three, by cancellation, or by the session
\* ending at the client's own disconnect.
C20_RetryAfterInterval ==
    /\ [][/\ (Fails /\ cause' \in Recoverable) =>
                (cpc' = "backoff" /\ timer' = ReconnectionInterval)
          /\ (cpc = "backoff" /\ cpc' # "backoff") =>
                \/ cpc' = "connect" /\ now - since = ReconnectionInterval
                \/ cpc' = "cancelled"
          /\ (cpc \notin Over /\ cpc' \in Over) =>
                cause' \in (Raised \ Recoverable) \cup {"Disconnected"}]_vars
    /\ [](cpc = "backoff" /\ timer = 0 => ENABLED KWake)
    /\ \A n \in 1 .. MaxAttempts :
          (cpc = "backoff" /\ nattempts = n - 1) ~>
             ((cpc = "connect" /\ nattempts = n) \/ cpc = "cancelled")

\* connect is called again after the last of MaxAttempts failures, each
\* slept after for ReconnectionInterval seconds
C20_Witness ==
    /\ cpc = "connect"
    /\ nattempts = MaxAttempts
    /\ now = MaxAttempts * ReconnectionInterval
    /\ connected = FALSE

\* the publish of the current state of device d, on f'{topic_root}/{topic}'
StatePublished(d) ==
    \E i \in 1 .. Len(wire) :
       wire[i].kind = "publish" /\ wire[i].topic = GetTopic(<<d>>)

\* C22: on every session, the first one and each one after a reconnect,
\* what the connection manager sends first is the retained message online
\* on the status topic: no subscribe and no discovery message of the
\* session comes before it, and none is sent without it.
C22_OnlineFirst ==
    /\ cpc \in {"subscribe", "config", "session"} => wire # <<>>
    /\ wire # <<>> =>
          wire[1] = Sent("publish", <<TopicRoot, "status">>, "online", TRUE)

\* a session after a reconnect on which subscribes and discovery messages
\* were sent
C22_Witness ==
    /\ nattempts > 0
    /\ cpc = "session"
    /\ Len(wire) > 1 + Len(LightList)

\* C23: when the task starts to wait for disconnect_reason, it has
\* published on this session the current state of every registered sensor
\* and of every registered light.
C23_StateOnConnect ==
    cpc = "session" => \A d \in SensorNames \cup Lights : StatePublished(d)

\* C24: every call of connect, the first and each retry, registers the
\* last will offline, retained, on the status topic.
C24_SameWill ==
    [][(cpc = "connect" /\ cpc' # "connect") =>
          will' = Sent("will", <<TopicRoot, "status">>, "offline", TRUE)]_vars

\* a retry of connect is over
C24_Witness ==
    /\ nattempts = MaxAttempts
    /\ cpc = "online"
    /\ will # NoWill

\* C25: a sensor value whose publish failed because the connection was
\* closed is not dropped: when the connection is back the task publishes
\* it again, or the failure is raised to the caller of the task.
C25_NeverDropped ==
    [][(ppc = "reconnect" /\ ppc' # "reconnect") =>
          ppc' \in {"publish", "raised"}]_vars

\* ====================================================== bridge claims

\* the connection manager is over by an error that is terminal by name
Terminal ==
    /\ cpc \in Over
    /\ cause \in {"AccessRefusedError", "ConnectionCloseForcedError"}

\* C21: once _connect_forever is over by AccessRefusedError or
\* ConnectionCloseForcedError it calls connect no more, start does not go
\* on waiting, and when start is over every one of the other tasks is
\* done: start has cancelled them.
C21_TerminalStops ==
    /\ [][Terminal => (cpc' = cpc /\ cause' = cause
                       /\ nattempts' = nattempts)]_vars
    /\ [](Terminal /\ opc = "wait" => ENABLED StartWake)
    /\ [](Terminal /\ opc \in {"returned", "raised"} =>
             \A t \in Tasks : TaskDone(t))

\* task t is over by a transient network failure: an exception of the
\* tuple that sleeps and retries, or ConnectionClosedError of a publish
TransientEnd(t) ==
    IF t = "connect" THEN cpc \in Over /\ cause \in Recoverable
    ELSE IF t = "buttons" THEN hpc = "raised" /\ bpc = "closed"
    ELSE FALSE

\* C26: aio.wait never hands to start a task that is finished by a
\* transient network failure: such a failure ends no task, and start goes
\* on waiting.
C26_TransientNeverFatal ==
    [][(opc = "wait" /\ opc' # "wait") =>
          \A t \in finished' : ~TransientEnd(t)]_vars

\* C27: when start is over, and when close is, each of the four tasks of
\* start is done and so are the tasks of Button.handle, handle_events and
\* handle_queue.
C27_AllTasksFinished ==
    opc \in {"returned", "raised", "raised_in_close", "closed"} =>
       /\ \A t \in Tasks : TaskDone(t)
       /\ gpc \in Over
       /\ epc \in Over
       /\ bpc \in QueueOver

\* ---------------------------------------------------- light, cancelled

\* C28: wherever Light.set can be cancelled, that is while it is suspended in
\* aio.sleep, and after it was cancelled there, the files of r, g and b hold
\* the three values of the frame the call wrote last: no frame is left
\* partly written.
C28_WholeFrames ==
    lpc \in {"sleep", "cancelled"} =>
       /\ nframes >= 1
       /\ led = frame.pwm

\* a fade cancelled between two of its frames, after a frame that changed
\* every channel
C28_Witness ==
    /\ lpc = "cancelled"
    /\ loc.k < loc.steps
    /\ nframes >= 2
    /\ \A c \in Channels : frame.pwm[c] # pframe.pwm[c]
    /\ led = frame.pwm

\* C29: while the frames of a fade are written, and after a Light.set that
\* failed or was cancelled before its last write, light.state is the state
\* the light had when the call was made.
C29_StateUntouched ==
    lpc \in {"sleep", "raised", "cancelled"} => lstate = loc.before

\* C30: a Light.set whose transition is greater than 0 and whose effective
\* start and end brightness differ has a step count of at least 1, does not
\* raise ZeroDivisionError and has written a frame of the fade by its first
\* suspension.
C30_AtLeastOneStep ==
    (lpc # "idle" /\ loc.transition > 0 /\ loc.start # loc.end) =>
       /\ loc.steps >= 1
       /\ lpc # "raised"
       /\ nframes >= 1

\* ---------------------------------------------------- light, the frames

\* max(1, round(12 * t)) for a transition of ms milliseconds
SpecSteps(ms) ==
    IF PyRound(12 * ms, 1000) >= 1 THEN PyRound(12 * ms, 1000) ELSE 1

\* C31: a Light.set that returns after a transition of t > 0 seconds between
\* differing start and end brightness has written exactly
\* max(1, round(12 * t)) interpolated frames, each followed by a sleep:
\* 6 for t = 0.5, 18 for t = 1.5.
C31_FrameCount ==
    (lpc = "done" /\ loc.transition > 0 /\ loc.start # loc.end) =>
       /\ loc.k = SpecSteps(loc.transition)
       /\ loc.transition = 500 => loc.k = 6
       /\ loc.transition = 1500 => loc.k = 18

\* the channel values of the state the call asks for: the state, brightness
\* and color that Light.set stores when it returns
FinalPwm ==
    Write(loc.state, loc.color, Lvl(loc.brightness)).pwm

\* C32: a Light.set whose effective start and end brightness are equal, or
\* whose transition is <= 0, returns after exactly one write, the write of
\* the final state, with no frame of a fade and no sleep.
C32_SingleWrite ==
    (lpc # "idle" /\ (loc.start = loc.end \/ loc.transition <= 0)) =>
       /\ lpc = "done"
       /\ nframes = 1
       /\ loc.k = 0
       /\ led = FinalPwm

\* the color stands for white exactly when the light is off, the request
\* turns it on and the color to apply is black
Substituted ==
    loc.before.state = "OFF" /\ TargetState = "ON" /\ RequestedColor = Black

\* C33: the color of every frame Light.set writes, and the color it stores
\* when it returns, is white when the light was off, the request turns it on
\* and the color to apply is black, and is the color to apply in every other
\* case.
C33_WhiteExactlyWhenTurnedOn ==
    /\ (lpc # "idle" /\ nframes >= 1) =>
          frame.color = IF Substituted THEN White ELSE RequestedColor
    /\ lpc = "done" =>
          lstate.color = IF Substituted THEN White ELSE RequestedColor

\* C34: the color of the k-th frame of a fade of n steps lies k/n of the
\* way from the color the light had to the color applied, in every channel
\* (to within the rounding of one unit).
C34_ColorInterpolated ==
    (lpc = "sleep" /\ loc.path = "fade") =>
       \A c \in Channels :
          \E d \in (1 - loc.steps) .. (loc.steps - 1) :
             frame.color[c] * loc.steps =
                loc.before.color[c] * (loc.steps - loc.k)
                + TargetColor[c] * loc.k + d

\* ------------------------------------------- connect, the subscriptions

\* the positions of wire at which topic t is subscribed to
SubscribedAt(t) ==
    {i \in 1 .. Len(wire) : wire[i].kind = "subscribe" /\ wire[i].topic = t}

\* C35: when the connection manager waits for disconnect_reason, on the
\* first session and on every session after a reconnect, it has subscribed
\* on that session to the set topic of every registered light.
C35_SubscribedBeforeWait ==
    cpc = "session" =>
       \A l \in Lights : SubscribedAt(<<TopicRoot, l, "set">>) # {}

\* the wait of a session after two reconnects
C35_Witness ==
    /\ cpc = "session"
    /\ nattempts >= 2
    /\ \A l \in Lights : Cardinality(SubscribedAt(<<TopicRoot, l, "set">>)) = 1

\* --------------------------------------------------- button, back at idle

\* handle_queue is between two gestures: it is neither in a wait_for whose
\* THRESHOLD has not passed nor in a call of on_click
Settled == bpc \notin {"wait", "cb_action", "cb_release"}

\* C36: after any sequence of key events whose last one is a key-up, when
\* no further event comes, handle_queue gets back to idle (is_pressed and
\* is_sent false, clicks_done 0, the queue empty, waiting in the get
\* without timeout), and it is idle whenever all events are taken, the
\* THRESHOLD of the last wait_for has passed and on_click has returned.
C36_BackToIdle ==
    /\ [](keystate # "key_down" /\ event_queue = <<>> /\ Settled => ButtonIdle)
    /\ \A n \in 0 .. MaxEvents :
          (keystate # "key_down" /\ nput = n) ~> (ButtonIdle \/ nput # n)

\* idle again after a hold and its release, and after five quick clicks
C36_Witness ==
    /\ ButtonIdle
    /\ keystate = "key_up"
    /\ nput >= 2
    /\ action \in {ButtonAction.RELEASE, ButtonAction.MANY}

\* ------------------------------------------------- button, the publishes

InClick == bpc \in {"cb_action", "cb_release"}

\* C37: in every call of _handle_click the empty action is published on
\* the button topic only after the JSON action on the button topic and the
\* plain action on the action topic are both acknowledged; on_click returns
\* only after the empty action is acknowledged, and handle_queue gets no
\* event of its queue while the call is in progress.
C37_EmptyActionLast ==
    /\ [](InClick =>
            /\ \A i \in 1 .. Len(Acked) :
                  Acked[i] = EmptyAction(ButtonList[1]) =>
                     /\ i = 3
                     /\ {Acked[1], Acked[2]} = Gathered(ButtonList[1], action)
            /\ \A i \in 1 .. Len(Acked) :
                  Acked[i] # EmptyAction(ButtonList[1]) =>
                     /\ i < 3
                     /\ Acked[i] \in Gathered(ButtonList[1], action))
    /\ [][(InClick /\ bpc' \in {"get", "wait"}) =>
             /\ Len(Acked) = 3
             /\ Acked[3] = EmptyAction(ButtonList[1])]_vars
    /\ [][InClick => nget' = nget /\ event_queue' \in
             {event_queue} \cup
             {Append(event_queue, [kind |-> e, seq |-> nput + 1]) :
                 e \in KeyStates}]_vars

\* the call for a double click whose plain action was acknowledged first,
\* with its three publishes acknowledged and an event waiting in the queue
C37_Witness ==
    /\ InClick
    /\ action = ButtonAction.DOUBLE
    /\ Len(Acked) = 3
    /\ ~Acked[1].json
    /\ event_queue # <<>>

\* ------------------------------------------------- intake, the retries

\* C38: when the publish of the echo raises connection-closed,
\* _handle_messages awaits the reconnection and then handles the same
\* message from the start, Light.set first and the publish after it, as
\* often as the publish fails: it leaves wait_for_connect only for a new
\* call of Light.set with the value of that message, when connected; it
\* ends the handling of a command only with its echo published or an
\* unhandled exception logged, never for a closed connection; and it takes
\* no other message in between.
C38_RetryWholeCommand ==
    /\ [][(AwaitingPublish /\ ~connected /\ mpc' # "set") =>
             mpc' = "reconnect" \/ logged'.what = "Unhandled exception"]_vars
    /\ [][(mpc = "reconnect" /\ mpc' # "reconnect") =>
             /\ connected
             /\ mpc' = "call"
             /\ lpc' = "idle"]_vars
    /\ [][(mpc = "call" /\ mpc' # "call"
              /\ message.payload.json = "object") =>
             /\ mpc' = "set"
             /\ lpc' \in {"sleep", "done", "raised"}
             /\ value' = message.payload.value]_vars
    /\ [][(mpc \in {"call", "set"} /\ mpc' = "next") =>
             \/ echo'.id = message.id /\ echo'.payload = lstate
             \/ logged' = [id |-> message.id, what |-> "Unhandled exception"]]_vars
    /\ [][(mpc \in {"call", "set", "reconnect"}) =>
             (message' = message /\ nrecv' >= nrecv)]_vars

\* the first command taken is handled again after its publish failed:
\* Light.set has run once more (it found the light in the state the command
\* asks for) and the echo, never published so far, is awaited again
C38_Witness ==
    /\ message.id = 1
    /\ OnMessage(message)
    /\ AwaitingPublish
    /\ loc.before = OnState
    /\ connected
    /\ ndrops > 0
    /\ logged = [id |-> 1, what |-> "Connection closed"]
    /\ echo = NoEcho

\* ---------------------------------------------- bridge, the first to end

\* C39: when one of the four tasks of start is done, start does not go on
\* waiting; when start is over, each of the four tasks is done, start having
\* cancelled and awaited those that were not; and start raises exactly when
\* a task that aio.wait gave as finished ended with an exception.
C39_FirstEndStopsAll ==
    /\ (opc = "wait" /\ \E t \in Tasks : TaskDone(t)) => ENABLED StartWake
    /\ opc \in {"returned", "raised"} => \A t \in Tasks : TaskDone(t)
    /\ opc = "raised" => \E t \in finished : TaskRaised(t)
    /\ opc = "returned" => \A t \in finished : ~TaskRaised(t)

\* ------------------------------------------------ connect, the retries

\* C40: _connect_forever calls connect again only from the sleep that
\* follows ConnectionLostError, ConnectFailedError or ServerDiedError; a
\* session whose disconnect_reason completes without an exception, and an
\* exception no clause names raised by connect, by the publish of online,
\* by subscribe or by send_config, make it return, and once it is over it
\* takes no further step.
C40_RetryOnlyRecoverable ==
    /\ [][(cpc # "connect" /\ cpc' = "connect") =>
             (cpc = "backoff" /\ cause \in Recoverable)]_vars
    /\ [][(cpc \in Awaits /\ cause' \in {"Disconnected", "Exception"}) =>
             cpc' = "returned"]_vars
    /\ [][(cpc \in Over) => (cpc' = cpc /\ nattempts' = nattempts)]_vars

\* after a retry, the task is over by an unexpected exception raised before
\* the session was set up
C40_Witness ==
    /\ cpc = "returned"
    /\ cause = "Exception"
    /\ nattempts > 0
    /\ Len(wire) \in 1 .. Len(LightList)

====
